---- MODULE Spec2Model ----
(***************************************************************************)
(* State-machine model of the `sync` crate of rust-snack: Mutex, SpinLock, *)
(* Condvar, RwLock and Arc/Weak.  Every atomic operation of the source is  *)
(* one step of the thread that executes it; a thread's position inside an  *)
(* operation is its program counter.  The futex facility (atomic_wait) is  *)
(* modelled by its contract: wait(word, v) parks the caller iff word = v   *)
(* at the moment of the call, a parked thread resumes when woken by        *)
(* wake_one / wake_all on that word, or spuriously.                        *)
(***************************************************************************)
EXTENDS Integers, Sequences, FiniteSets, TLC

\* ------------------------------------------------------------------ bounds
NThreads == 3
MaxLocks == 1
MaxHandles == 4
MaxMsgs == 3
\* Width of the model's atomic words (u32 / usize in the source, scaled down).
WordBits == 4
WordMod == 2 ^ WordBits

Threads == 1..NThreads

\* ------------------------------------------------------- program constants
MUTEX_UNLOCKED == 0
MUTEX_LOCKED == 1
MUTEX_CONTENTION == 2
\* u32::MAX of the scaled word
RWLOCK_WLOCKED == WordMod - 1

VARIABLES
    m_state,    \* Mutex.state
    m_pc,       \* per thread: position inside Mutex::lock / MutexGuard::drop
    m_value,    \* Mutex.value in test_mutex: a Vec
    m_pushed,   \* per thread: pushes done in the current critical section
    m_locks,    \* per thread: completed lock()/drop rounds
    b_value,    \* Mutex.value in the benchmark: a counter
    b_tmp,      \* per thread: the value read by `*m.lock() += 1`, or -1
    b_iters,    \* per thread: completed loop iterations
    s_locked,   \* SpinLock.locked
    s_pc,       \* per thread: position inside SpinLock::lock
    s_value,    \* SpinLock.value in test_spin_lock: a Vec
    s_pushed,   \* per thread: pushes done in the current critical section
    s_locks,    \* per thread: completed lock()/drop rounds
    cv_counter, \* Condvar.counter
    cv_waiters, \* Condvar.num_waiters
    cv_pc,      \* per thread: position in test_condvar's waiter / notifier
    cv_seen,    \* per thread: the local counter_value of Condvar::wait
    cv_data,    \* the value the Mutex protects in test_condvar (0, then 123)
    cv_ret,     \* history: the threads whose wait() call returned with cv_data set
    a_strong,   \* ArcInner.strong_ref_count
    a_weak,     \* ArcInner.weak_ref_count
    a_arcs,     \* per thread: Arc handles the thread owns
    a_weaks,    \* per thread: Weak handles the thread owns
    a_pc,       \* per thread: position inside an Arc / Weak operation
    a_n,        \* per thread: the local n of downgrade / upgrade
    a_unique,   \* per thread: the local is_unique of get_mut
    a_dropped,  \* history: runs of the payload's destructor
    a_freed,    \* history: times the cell's box was freed
    a_uaf,      \* history: the cell was accessed after it was freed
    ch_queue,   \* Channel.queue: the VecDeque behind the std Mutex
    ch_lock,    \* the thread holding the queue's MutexGuard, 0 when free
    ch_pc,      \* per thread: position inside Channel::send / Channel::recv
    ch_sent,    \* per thread: values the thread has pushed
    ch_got,     \* history: the values recv calls popped, in pop order
    ch_sends,   \* history: send calls made
    ch_recvs,   \* history: recv calls made
    os_ready,   \* oneshot Channel.ready
    os_slot,    \* oneshot Channel.message: 0 while uninitialized, else the value
    os_refs,    \* strong count of the std Arc<Channel> both handles share
    os_pc,      \* position of the Sender ("snd") and of the Receiver ("rcv")
    os_seen,    \* the last result of Receiver::is_ready
    os_got,     \* what receive returned: 0 not called, -1 uninitialized bits
    os_torn,    \* history: message destructor runs of Channel::drop
    os_bad,     \* history: Channel::drop read the uninitialized slot
    rw_state,   \* RwLock.state
    rw_wake,    \* RwLock.writer_wake_counter
    rw_pc,      \* per thread: position inside read / write / guard drop
    rw_x,       \* per thread: the local x of read() and write()
    rw_w,       \* per thread: the local w of write()
    rw_calls,   \* per thread: guards obtained and released (0 or 1)
    rw_wparked, \* history: has a writer parked since the last WriteGuard?
    rw_late     \* per thread (history): rw_wparked when read() was called

mutexVars == <<m_state, m_pc>>
mutexTestVars == <<m_value, m_pushed, m_locks>>
benchVars == <<b_value, b_tmp, b_iters>>
spinVars == <<s_locked, s_pc, s_value, s_pushed, s_locks>>
cvVars == <<cv_counter, cv_waiters, cv_pc, cv_seen, cv_data, cv_ret>>
arcVars ==
    <<a_strong, a_weak, a_arcs, a_weaks, a_pc, a_n, a_unique, a_dropped,
      a_freed, a_uaf>>
chanVars == <<ch_queue, ch_lock, ch_pc, ch_sent, ch_got, ch_sends, ch_recvs>>
oneVars == <<os_ready, os_slot, os_refs, os_pc, os_seen, os_got, os_torn, os_bad>>
rwVars == <<rw_state, rw_wake, rw_pc, rw_x, rw_w, rw_calls, rw_wparked, rw_late>>
vars ==
    <<mutexVars, mutexTestVars, benchVars, spinVars, cvVars, arcVars, chanVars,
      oneVars, rwVars>>

\* ================================================================== Mutex
\* m_pc values: "out"    not inside lock(), no guard
\*              "cas"    inside lock(), before the compare_exchange
\*              "swap"   inside lock(), before state.swap(MUTEX_CONTENTION)
\*              "wait"   inside lock(), before wait(&state, MUTEX_CONTENTION)
\*              "parked" inside lock(), parked in the futex on state
\*              "held"   lock() returned, the MutexGuard is alive
\*              "wake"   inside MutexGuard::drop, before wake_one(&state)

MutexInit ==
    /\ m_state = MUTEX_UNLOCKED
    /\ m_pc = [t \in Threads |-> "out"]

MutexParked == {t \in Threads : m_pc[t] = "parked"}
MutexInLock == {t \in Threads : m_pc[t] \in {"cas", "swap", "wait", "parked"}}
MutexHolders == {t \in Threads : m_pc[t] = "held"}

\* A call of Mutex::lock: the caller enters lock().
MutexLockCall(t) ==
    /\ m_pc[t] = "out"
    /\ m_pc' = [m_pc EXCEPT ![t] = "cas"]
    /\ UNCHANGED m_state

\* Mutant: the first compare_exchange stores MUTEX_CONTENTION.
MutexLockCasMarksContention(t) ==
    /\ m_pc[t] = "cas"
    /\ IF m_state = MUTEX_UNLOCKED
          THEN /\ m_state' = MUTEX_CONTENTION
               /\ m_pc' = [m_pc EXCEPT ![t] = "held"]
          ELSE /\ m_pc' = [m_pc EXCEPT ![t] = "swap"]
               /\ UNCHANGED m_state

\* state.compare_exchange(MUTEX_UNLOCKED, MUTEX_LOCKED)
MutexLockCas(t) ==
    /\ m_pc[t] = "cas"
    /\ IF m_state = MUTEX_UNLOCKED
          THEN /\ m_state' = MUTEX_LOCKED
               /\ m_pc' = [m_pc EXCEPT ![t] = "held"]
          ELSE /\ m_pc' = [m_pc EXCEPT ![t] = "swap"]
               /\ UNCHANGED m_state

\* Mutant: the swap's result is not compared with MUTEX_UNLOCKED.
MutexLockSwapNoCheck(t) ==
    /\ m_pc[t] = "swap"
    /\ m_state' = MUTEX_CONTENTION
    /\ m_pc' = [m_pc EXCEPT ![t] = "held"]

\* while state.swap(MUTEX_CONTENTION) != MUTEX_UNLOCKED
MutexLockSwap(t) ==
    /\ m_pc[t] = "swap"
    /\ m_state' = MUTEX_CONTENTION
    /\ m_pc' = [m_pc EXCEPT ![t] =
                    IF m_state = MUTEX_UNLOCKED THEN "held" ELSE "wait"]

\* wait(&state, MUTEX_CONTENTION): parks iff the word still holds the value.
MutexLockWait(t) ==
    /\ m_pc[t] = "wait"
    /\ m_pc' = [m_pc EXCEPT ![t] =
                    IF m_state = MUTEX_CONTENTION THEN "parked" ELSE "swap"]
    /\ UNCHANGED m_state

\* The futex may return with no wake call.
MutexSpuriousWake(t) ==
    /\ m_pc[t] = "parked"
    /\ m_pc' = [m_pc EXCEPT ![t] = "swap"]
    /\ UNCHANGED m_state

\* Mutant: the guard release never reaches wake_one.
MutexGuardDropNoWake(t) ==
    /\ m_pc[t] = "held"
    /\ m_state' = MUTEX_UNLOCKED
    /\ m_pc' = [m_pc EXCEPT ![t] = "out"]

\* Mutant: the guard release calls wake_one whatever the swap returned.
MutexGuardDropAlwaysWake(t) ==
    /\ m_pc[t] = "held"
    /\ m_state' = MUTEX_UNLOCKED
    /\ m_pc' = [m_pc EXCEPT ![t] = "wake"]

\* MutexGuard::drop, first half: state.swap(MUTEX_UNLOCKED) == MUTEX_CONTENTION
MutexGuardDrop(t) ==
    /\ m_pc[t] = "held"
    /\ m_state' = MUTEX_UNLOCKED
    /\ m_pc' = [m_pc EXCEPT ![t] =
                    IF m_state = MUTEX_CONTENTION THEN "wake" ELSE "out"]

\* MutexGuard::drop, second half: wake_one(&state)
MutexWakeOne(t) ==
    /\ m_pc[t] = "wake"
    /\ IF MutexParked = {}
          THEN m_pc' = [m_pc EXCEPT ![t] = "out"]
          ELSE \E u \in MutexParked :
                  m_pc' = [m_pc EXCEPT ![t] = "out", ![u] = "swap"]
    /\ UNCHANGED m_state

\* The steps inside lock() and drop that the scheduler must eventually run.
MutexStep(t) ==
    \/ MutexLockCas(t)
    \/ MutexLockSwap(t)
    \/ MutexLockWait(t)
    \/ MutexWakeOne(t)

\* ------------------------------------------------- test_mutex's threads
\* Thread 1 pushes its tag once, every other thread pushes its tag twice.
Pushes(t) == IF t = 1 THEN 1 ELSE 2

MutexTestInit ==
    /\ m_value = <<>>
    /\ m_pushed = [t \in Threads |-> 0]
    /\ m_locks = [t \in Threads |-> 0]

MutexTestLock(t) ==
    /\ m_locks[t] < MaxLocks
    /\ MutexLockCall(t)
    /\ UNCHANGED mutexTestVars

\* g.push(tag) through DerefMut of the guard
MutexTestPush(t) ==
    /\ m_pc[t] = "held"
    /\ m_pushed[t] < Pushes(t)
    /\ m_value' = Append(m_value, t)
    /\ m_pushed' = [m_pushed EXCEPT ![t] = @ + 1]
    /\ UNCHANGED <<m_state, m_pc, m_locks>>

\* end of the statement / closure: the guard is dropped
MutexTestUnlock(t) ==
    /\ m_pushed[t] = Pushes(t)
    /\ MutexGuardDrop(t)
    /\ m_pushed' = [m_pushed EXCEPT ![t] = 0]
    /\ m_locks' = [m_locks EXCEPT ![t] = @ + 1]
    /\ UNCHANGED m_value

\* ------------------------------------- bench_multi_thread_mutex's threads
\* for _ in 0..LOOP_COUNTS { *m.lock() += 1 }, LOOP_COUNTS scaled to MaxLocks

BenchInit ==
    /\ b_value = 0
    /\ b_tmp = [t \in Threads |-> -1]
    /\ b_iters = [t \in Threads |-> 0]

BenchLock(t) ==
    /\ b_iters[t] < MaxLocks
    /\ MutexLockCall(t)
    /\ UNCHANGED benchVars

\* `+=` reads the counter through the guard ...
BenchRead(t) ==
    /\ m_pc[t] = "held"
    /\ b_tmp[t] = -1
    /\ b_tmp' = [b_tmp EXCEPT ![t] = b_value]
    /\ UNCHANGED <<m_state, m_pc, b_value, b_iters>>

\* ... and writes it back incremented (b_tmp = -2: the statement is done)
BenchWrite(t) ==
    /\ m_pc[t] = "held"
    /\ b_tmp[t] >= 0
    /\ b_value' = b_tmp[t] + 1
    /\ b_tmp' = [b_tmp EXCEPT ![t] = -2]
    /\ UNCHANGED <<m_state, m_pc, b_iters>>

\* end of the statement: the guard is dropped
BenchUnlock(t) ==
    /\ b_tmp[t] = -2
    /\ MutexGuardDrop(t)
    /\ b_tmp' = [b_tmp EXCEPT ![t] = -1]
    /\ b_iters' = [b_iters EXCEPT ![t] = @ + 1]
    /\ UNCHANGED b_value

\* =============================================================== SpinLock
\* s_pc values: "out"   not inside lock(), no guard
\*              "swap"  inside lock(), before locked.swap(true)
\*              "held"  lock() returned, the SpinLockGuard is alive

SpinInit ==
    /\ s_locked = FALSE
    /\ s_pc = [t \in Threads |-> "out"]
    /\ s_value = <<>>
    /\ s_pushed = [t \in Threads |-> 0]
    /\ s_locks = [t \in Threads |-> 0]

SpinHolders == {t \in Threads : s_pc[t] = "held"}

\* A call of SpinLock::lock (test_spin_lock's threads call it MaxLocks times).
SpinLockCall(t) ==
    /\ s_pc[t] = "out"
    /\ s_locks[t] < MaxLocks
    /\ s_pc' = [s_pc EXCEPT ![t] = "swap"]
    /\ UNCHANGED <<s_locked, s_value, s_pushed, s_locks>>

\* Mutant: the loop leaves on any result of the swap.
SpinLockSwapNoCheck(t) ==
    /\ s_pc[t] = "swap"
    /\ s_locked' = TRUE
    /\ s_pc' = [s_pc EXCEPT ![t] = "held"]
    /\ UNCHANGED <<s_value, s_pushed, s_locks>>

\* while locked.swap(true) { spin_loop() }
SpinLockSwap(t) ==
    /\ s_pc[t] = "swap"
    /\ s_locked' = TRUE
    /\ s_pc' = [s_pc EXCEPT ![t] = IF s_locked THEN "swap" ELSE "held"]
    /\ UNCHANGED <<s_value, s_pushed, s_locks>>

\* g.push(tag) through DerefMut of the guard
SpinPush(t) ==
    /\ s_pc[t] = "held"
    /\ s_pushed[t] < Pushes(t)
    /\ s_value' = Append(s_value, t)
    /\ s_pushed' = [s_pushed EXCEPT ![t] = @ + 1]
    /\ UNCHANGED <<s_locked, s_pc, s_locks>>

\* SpinLockGuard::drop -> SpinLock::unlock: locked.store(false)
SpinGuardDrop(t) ==
    /\ s_pc[t] = "held"
    /\ s_pushed[t] = Pushes(t)
    /\ s_locked' = FALSE
    /\ s_pc' = [s_pc EXCEPT ![t] = "out"]
    /\ s_pushed' = [s_pushed EXCEPT ![t] = 0]
    /\ s_locks' = [s_locks EXCEPT ![t] = @ + 1]
    /\ UNCHANGED s_value

\* ================================================================ Condvar
\* test_condvar's threads on one Mutex (m_state, m_pc) and one Condvar: the
\* spawned thread notifies, every other thread waits.
\*   waiter:    let mut m = m.lock(); while *m < 100 { m = cv.wait(m) }
\*   notifier:  *m.lock() = 123; cv.notify_one()     (or notify_all)
\* cv_pc values: "idle"
\*   waiter:   "w_lock"    inside the first m.lock()
\*             "w_test"    holds the guard returned by lock()/wait(), before
\*                         the loop test
\*             "wt_inc"    inside wait, before num_waiters.fetch_add
\*             "wt_load"   inside wait, before counter.load
\*             "wt_drop"   inside wait, before drop(guard)
\*             "wt_wait"   inside wait, before wait(&counter, counter_value)
\*             "wt_parked" parked in that futex wait
\*             "wt_dec"    inside wait, before num_waiters.fetch_sub
\*             "wt_lock"   inside wait, before mutex.lock()
\*             "wt_ret"    inside wait, inside mutex.lock()
\*             "w_exit"    after the loop, before the guard is dropped
\*             "w_done"
\*   notifier: "n_lock", "n_set", "n_drop", "n_notify" (before the call),
\*             "n1_add", "n1_wake" (notify_one), "na_add", "na_wake"
\*             (notify_all), "n_done"

\* the thread test_condvar spawns
CvNotifier == 1

CvInit ==
    /\ cv_counter = 0
    /\ cv_waiters = 0
    /\ cv_pc = [t \in Threads |-> "idle"]
    /\ cv_seen = [t \in Threads |-> 0]
    /\ cv_data = 0
    /\ cv_ret = {}

CvParked == {t \in Threads : cv_pc[t] = "wt_parked"}
CvInWait ==
    {t \in Threads : cv_pc[t] \in
        {"wt_inc", "wt_load", "wt_drop", "wt_wait", "wt_parked", "wt_dec",
         "wt_lock", "wt_ret"}}

\* ---- waiter
CvWaiterLock(t) ==
    /\ t # CvNotifier
    /\ cv_pc[t] = "idle"
    /\ MutexLockCall(t)
    /\ cv_pc' = [cv_pc EXCEPT ![t] = "w_lock"]
    /\ UNCHANGED <<cv_counter, cv_waiters, cv_seen, cv_data, cv_ret>>

\* m.lock() returns the guard
CvWaiterLocked(t) ==
    /\ cv_pc[t] = "w_lock"
    /\ m_pc[t] = "held"
    /\ cv_pc' = [cv_pc EXCEPT ![t] = "w_test"]
    /\ UNCHANGED <<m_state, m_pc, cv_counter, cv_waiters, cv_seen, cv_data, cv_ret>>

\* while *m < 100 { m = cv.wait(m) }
CvWaiterTest(t) ==
    /\ cv_pc[t] = "w_test"
    /\ cv_pc' = [cv_pc EXCEPT ![t] = IF cv_data < 100 THEN "wt_inc" ELSE "w_exit"]
    /\ UNCHANGED <<m_state, m_pc, cv_counter, cv_waiters, cv_seen, cv_data, cv_ret>>

\* self.num_waiters.fetch_add(1, Relaxed)
CvWaitInc(t) ==
    /\ cv_pc[t] = "wt_inc"
    /\ cv_waiters' = cv_waiters + 1
    /\ cv_pc' = [cv_pc EXCEPT ![t] = "wt_load"]
    /\ UNCHANGED <<m_state, m_pc, cv_counter, cv_seen, cv_data, cv_ret>>

\* let counter_value = self.counter.load(Relaxed)
CvWaitLoad(t) ==
    /\ cv_pc[t] = "wt_load"
    /\ cv_seen' = [cv_seen EXCEPT ![t] = cv_counter]
    /\ cv_pc' = [cv_pc EXCEPT ![t] = "wt_drop"]
    /\ UNCHANGED <<m_state, m_pc, cv_counter, cv_waiters, cv_data, cv_ret>>

\* drop(guard)
CvWaitDrop(t) ==
    /\ cv_pc[t] = "wt_drop"
    /\ MutexGuardDrop(t)
    /\ cv_pc' = [cv_pc EXCEPT ![t] = "wt_wait"]
    /\ UNCHANGED <<cv_counter, cv_waiters, cv_seen, cv_data, cv_ret>>

\* Mutant: the futex parks whatever the counter holds.
CvWaitFutexNoCompare(t) ==
    /\ cv_pc[t] = "wt_wait"
    /\ m_pc[t] = "out"
    /\ cv_pc' = [cv_pc EXCEPT ![t] = "wt_parked"]
    /\ UNCHANGED <<m_state, m_pc, cv_counter, cv_waiters, cv_seen, cv_data, cv_ret>>

\* Mutant: the futex wait returns at once whatever the counter holds.
CvWaitFutexReturnsAtOnce(t) ==
    /\ cv_pc[t] = "wt_wait"
    /\ m_pc[t] = "out"
    /\ cv_pc' = [cv_pc EXCEPT ![t] = "wt_dec"]
    /\ UNCHANGED <<m_state, m_pc, cv_counter, cv_waiters, cv_seen, cv_data, cv_ret>>

\* wait(&self.counter, counter_value), once the guard's drop has returned
CvWaitFutex(t) ==
    /\ cv_pc[t] = "wt_wait"
    /\ m_pc[t] = "out"
    /\ cv_pc' = [cv_pc EXCEPT ![t] =
                    IF cv_counter = cv_seen[t] THEN "wt_parked" ELSE "wt_dec"]
    /\ UNCHANGED <<m_state, m_pc, cv_counter, cv_waiters, cv_seen, cv_data, cv_ret>>

CvSpuriousWake(t) ==
    /\ cv_pc[t] = "wt_parked"
    /\ cv_pc' = [cv_pc EXCEPT ![t] = "wt_dec"]
    /\ UNCHANGED <<m_state, m_pc, cv_counter, cv_waiters, cv_seen, cv_data, cv_ret>>

\* self.num_waiters.fetch_sub(1, Relaxed); counter_value is dead from here
CvWaitDec(t) ==
    /\ cv_pc[t] = "wt_dec"
    /\ cv_waiters' = cv_waiters - 1
    /\ cv_pc' = [cv_pc EXCEPT ![t] = "wt_lock"]
    /\ cv_seen' = [cv_seen EXCEPT ![t] = 0]
    /\ UNCHANGED <<m_state, m_pc, cv_counter, cv_data, cv_ret>>

\* Mutant: wait returns without calling mutex.lock().
CvWaitRelockSkipped(t) ==
    /\ cv_pc[t] = "wt_lock"
    /\ cv_pc' = [cv_pc EXCEPT ![t] = "w_test"]
    /\ UNCHANGED <<m_state, m_pc, cv_counter, cv_waiters, cv_seen, cv_data, cv_ret>>

\* mutex.lock() as wait's tail call
CvWaitRelock(t) ==
    /\ cv_pc[t] = "wt_lock"
    /\ MutexLockCall(t)
    /\ cv_pc' = [cv_pc EXCEPT ![t] = "wt_ret"]
    /\ UNCHANGED <<cv_counter, cv_waiters, cv_seen, cv_data, cv_ret>>

\* wait returns what mutex.lock() returned
CvWaitReturn(t) ==
    /\ cv_pc[t] = "wt_ret"
    /\ m_pc[t] = "held"
    /\ cv_pc' = [cv_pc EXCEPT ![t] = "w_test"]
    /\ cv_ret' = IF cv_data >= 100 THEN cv_ret \cup {t} ELSE cv_ret
    /\ UNCHANGED <<m_state, m_pc, cv_counter, cv_waiters, cv_seen, cv_data>>

\* the waiter's guard goes out of scope
CvWaiterExit(t) ==
    /\ cv_pc[t] = "w_exit"
    /\ MutexGuardDrop(t)
    /\ cv_pc' = [cv_pc EXCEPT ![t] = "w_done"]
    /\ UNCHANGED <<cv_counter, cv_waiters, cv_seen, cv_data, cv_ret>>

\* ---- notifier
CvNotifierLock(t) ==
    /\ t = CvNotifier
    /\ cv_pc[t] = "idle"
    /\ MutexLockCall(t)
    /\ cv_pc' = [cv_pc EXCEPT ![t] = "n_lock"]
    /\ UNCHANGED <<cv_counter, cv_waiters, cv_seen, cv_data, cv_ret>>

CvNotifierLocked(t) ==
    /\ cv_pc[t] = "n_lock"
    /\ m_pc[t] = "held"
    /\ cv_pc' = [cv_pc EXCEPT ![t] = "n_set"]
    /\ UNCHANGED <<m_state, m_pc, cv_counter, cv_waiters, cv_seen, cv_data, cv_ret>>

\* *m.lock() = 123
CvNotifierSet(t) ==
    /\ cv_pc[t] = "n_set"
    /\ cv_data' = 123
    /\ cv_pc' = [cv_pc EXCEPT ![t] = "n_drop"]
    /\ UNCHANGED <<m_state, m_pc, cv_counter, cv_waiters, cv_seen, cv_ret>>

\* the temporary guard is dropped at the end of the statement
CvNotifierDrop(t) ==
    /\ cv_pc[t] = "n_drop"
    /\ MutexGuardDrop(t)
    /\ cv_pc' = [cv_pc EXCEPT ![t] = "n_notify"]
    /\ UNCHANGED <<cv_counter, cv_waiters, cv_seen, cv_data, cv_ret>>

\* Mutant: notify_one increments the counter whatever the waiter count is.
CvNotifyOneCheckAlwaysAdd(t) ==
    /\ cv_pc[t] = "n_notify"
    /\ m_pc[t] = "out"
    /\ cv_pc' = [cv_pc EXCEPT ![t] = "n1_add"]
    /\ UNCHANGED <<m_state, m_pc, cv_counter, cv_waiters, cv_seen, cv_data, cv_ret>>

\* notify_one: if self.num_waiters.load(Relaxed) > 0
CvNotifyOneCheck(t) ==
    /\ cv_pc[t] = "n_notify"
    /\ m_pc[t] = "out"
    /\ cv_pc' = [cv_pc EXCEPT ![t] = IF cv_waiters > 0 THEN "n1_add" ELSE "n_done"]
    /\ UNCHANGED <<m_state, m_pc, cv_counter, cv_waiters, cv_seen, cv_data, cv_ret>>

\* notify_all: if self.num_waiters.load(Relaxed) > 0
CvNotifyAllCheck(t) ==
    /\ cv_pc[t] = "n_notify"
    /\ m_pc[t] = "out"
    /\ cv_pc' = [cv_pc EXCEPT ![t] = IF cv_waiters > 0 THEN "na_add" ELSE "n_done"]
    /\ UNCHANGED <<m_state, m_pc, cv_counter, cv_waiters, cv_seen, cv_data, cv_ret>>

\* self.counter.fetch_add(1, Relaxed)
CvNotifyAdd(t) ==
    /\ cv_pc[t] \in {"n1_add", "na_add"}
    /\ cv_counter' = (cv_counter + 1) % WordMod
    /\ cv_pc' = [cv_pc EXCEPT ![t] = IF cv_pc[t] = "n1_add" THEN "n1_wake" ELSE "na_wake"]
    /\ UNCHANGED <<m_state, m_pc, cv_waiters, cv_seen, cv_data, cv_ret>>

\* wake_one(&self.counter)
CvNotifyWakeOne(t) ==
    /\ cv_pc[t] = "n1_wake"
    /\ IF CvParked = {}
          THEN cv_pc' = [cv_pc EXCEPT ![t] = "n_done"]
          ELSE \E u \in CvParked :
                  cv_pc' = [cv_pc EXCEPT ![t] = "n_done", ![u] = "wt_dec"]
    /\ UNCHANGED <<m_state, m_pc, cv_counter, cv_waiters, cv_seen, cv_data, cv_ret>>

\* wake_all(&self.counter)
CvNotifyWakeAll(t) ==
    /\ cv_pc[t] = "na_wake"
    /\ cv_pc' = [u \in Threads |->
                    IF u = t THEN "n_done"
                    ELSE IF cv_pc[u] = "wt_parked" THEN "wt_dec" ELSE cv_pc[u]]
    /\ UNCHANGED <<m_state, m_pc, cv_counter, cv_waiters, cv_seen, cv_data, cv_ret>>

\* Every step a scheduled thread takes by itself once it has started.
CvStep(t) ==
    \/ MutexStep(t) /\ UNCHANGED cvVars
    \/ CvWaiterLocked(t) \/ CvWaiterTest(t) \/ CvWaitInc(t) \/ CvWaitLoad(t)
    \/ CvWaitDrop(t) \/ CvWaitFutex(t) \/ CvWaitDec(t) \/ CvWaitRelock(t)
    \/ CvWaitReturn(t) \/ CvWaiterExit(t)
    \/ CvNotifierLocked(t) \/ CvNotifierSet(t) \/ CvNotifierDrop(t)
    \/ CvNotifyOneCheck(t) \/ CvNotifyAllCheck(t) \/ CvNotifyAdd(t)
    \/ CvNotifyWakeOne(t) \/ CvNotifyWakeAll(t)

\* ============================================================== Arc / Weak
\* One cell of arc/mod.rs.  Thread 1 starts with the handle Arc::new returned;
\* handles move between threads as they do into a spawned closure.  Every
\* step that reads or writes the cell records in a_uaf whether the box was
\* already freed.
\* a_pc values: "idle"
\*   "dg_load", "dg_loop"            Arc::downgrade
\*   "up_load", "up_loop"            Weak::upgrade
\*   "gm_cas", "gm_load", "gm_store" Arc::get_mut; "gm_use" holds the &mut T
\*   "ad_payload", "ad_weak"         Arc::drop after its fetch_sub returned 1
\*   "wd_free"                       Weak::drop after its fetch_sub returned 1
\*   "aborted"                       std::process::abort()

USIZE_MAX == WordMod - 1

ArcInit ==
    /\ a_strong = 1
    /\ a_weak = 1
    /\ a_arcs = [t \in Threads |-> IF t = 1 THEN 1 ELSE 0]
    /\ a_weaks = [t \in Threads |-> 0]
    /\ a_pc = [t \in Threads |-> "idle"]
    /\ a_n = [t \in Threads |-> 0]
    /\ a_unique = [t \in Threads |-> FALSE]
    /\ a_dropped = 0
    /\ a_freed = 0
    /\ a_uaf = FALSE

RECURSIVE SumTo(_, _)
SumTo(f, n) == IF n = 0 THEN 0 ELSE f[n] + SumTo(f, n - 1)

ArcLive == SumTo(a_arcs, NThreads)
WeakLive == SumTo(a_weaks, NThreads)
\* calls in progress that may still return a new handle
ArcMaking == Cardinality({t \in Threads : a_pc[t] \in {"dg_load", "dg_loop", "up_load", "up_loop"}})
ArcRoom == ArcLive + WeakLive + ArcMaking < MaxHandles
ArcRunning == \A t \in Threads : a_pc[t] # "aborted"

\* an access to the cell through self.data() or self.inner
ArcTouch == a_uaf' = (a_uaf \/ a_freed > 0)

\* thread::spawn(move || ...): an idle thread hands one handle to another
ArcSend(t, u) ==
    /\ ArcRunning /\ a_pc[t] = "idle" /\ t # u
    /\ a_arcs[t] > 0
    /\ a_arcs' = [a_arcs EXCEPT ![t] = @ - 1, ![u] = @ + 1]
    /\ UNCHANGED <<a_strong, a_weak, a_weaks, a_pc, a_n, a_unique, a_dropped, a_freed, a_uaf>>

WeakSend(t, u) ==
    /\ ArcRunning /\ a_pc[t] = "idle" /\ t # u
    /\ a_weaks[t] > 0
    /\ a_weaks' = [a_weaks EXCEPT ![t] = @ - 1, ![u] = @ + 1]
    /\ UNCHANGED <<a_strong, a_weak, a_arcs, a_pc, a_n, a_unique, a_dropped, a_freed, a_uaf>>

\* Deref::deref: reads the payload through the cell
ArcDeref(t) ==
    /\ ArcRunning /\ a_pc[t] = "idle"
    /\ a_arcs[t] > 0
    /\ a_uaf' = (a_uaf \/ a_freed > 0 \/ a_dropped > 0)
    /\ UNCHANGED <<a_strong, a_weak, a_arcs, a_weaks, a_pc, a_n, a_unique, a_dropped, a_freed>>

\* Arc::clone: strong_ref_count.fetch_add(1) > usize::MAX / 2 aborts
ArcClone(t) ==
    /\ ArcRunning /\ a_pc[t] = "idle"
    /\ a_arcs[t] > 0
    /\ ArcRoom
    /\ ArcTouch
    /\ a_strong' = (a_strong + 1) % WordMod
    /\ IF a_strong > USIZE_MAX \div 2
          THEN a_pc' = [a_pc EXCEPT ![t] = "aborted"] /\ UNCHANGED a_arcs
          ELSE a_arcs' = [a_arcs EXCEPT ![t] = @ + 1] /\ UNCHANGED a_pc
    /\ UNCHANGED <<a_weak, a_weaks, a_n, a_unique, a_dropped, a_freed>>

\* Weak::clone: weak_ref_count.fetch_add(1) > usize::MAX / 2 aborts
\* Mutant: cloning a Weak handle does not count it.
WeakCloneNoCount(t) ==
    /\ ArcRunning /\ a_pc[t] = "idle"
    /\ a_weaks[t] > 0
    /\ ArcRoom
    /\ ArcTouch
    /\ a_weaks' = [a_weaks EXCEPT ![t] = @ + 1]
    /\ UNCHANGED <<a_strong, a_weak, a_arcs, a_pc, a_n, a_unique, a_dropped, a_freed>>

WeakClone(t) ==
    /\ ArcRunning /\ a_pc[t] = "idle"
    /\ a_weaks[t] > 0
    /\ ArcRoom
    /\ ArcTouch
    /\ a_weak' = (a_weak + 1) % WordMod
    /\ IF a_weak > USIZE_MAX \div 2
          THEN a_pc' = [a_pc EXCEPT ![t] = "aborted"] /\ UNCHANGED a_weaks
          ELSE a_weaks' = [a_weaks EXCEPT ![t] = @ + 1] /\ UNCHANGED a_pc
    /\ UNCHANGED <<a_strong, a_arcs, a_n, a_unique, a_dropped, a_freed>>

\* ---- Arc::downgrade
ArcDowngradeCall(t) ==
    /\ ArcRunning /\ a_pc[t] = "idle"
    /\ a_arcs[t] > 0
    /\ ArcRoom
    /\ a_pc' = [a_pc EXCEPT ![t] = "dg_load"]
    /\ UNCHANGED <<a_strong, a_weak, a_arcs, a_weaks, a_n, a_unique, a_dropped, a_freed, a_uaf>>

\* let mut n = weak_ref_count.load(Relaxed)
ArcDowngradeLoad(t) ==
    /\ ArcRunning /\ a_pc[t] = "dg_load"
    /\ ArcTouch
    /\ a_n' = [a_n EXCEPT ![t] = a_weak]
    /\ a_pc' = [a_pc EXCEPT ![t] = "dg_loop"]
    /\ UNCHANGED <<a_strong, a_weak, a_arcs, a_weaks, a_unique, a_dropped, a_freed>>

\* if n == usize::MAX { n = weak_ref_count.load(Relaxed); continue }
ArcDowngradeSpin(t) ==
    /\ ArcRunning /\ a_pc[t] = "dg_loop"
    /\ a_n[t] = USIZE_MAX
    /\ ArcTouch
    /\ a_n' = [a_n EXCEPT ![t] = a_weak]
    /\ UNCHANGED <<a_strong, a_weak, a_arcs, a_weaks, a_pc, a_unique, a_dropped, a_freed>>

\* weak_ref_count.compare_exchange_weak(n, n + 1): Err(e) => n = e
ArcDowngradeCas(t) ==
    /\ ArcRunning /\ a_pc[t] = "dg_loop"
    /\ a_n[t] # USIZE_MAX
    /\ ArcTouch
    /\ IF a_weak = a_n[t]
          THEN /\ a_weak' = (a_n[t] + 1) % WordMod
               /\ a_weaks' = [a_weaks EXCEPT ![t] = @ + 1]
               /\ a_n' = [a_n EXCEPT ![t] = 0]
               /\ a_pc' = [a_pc EXCEPT ![t] = "idle"]
          ELSE /\ a_n' = [a_n EXCEPT ![t] = a_weak]
               /\ UNCHANGED <<a_weak, a_weaks, a_pc>>
    /\ UNCHANGED <<a_strong, a_arcs, a_unique, a_dropped, a_freed>>

\* ---- Weak::upgrade
WeakUpgradeCall(t) ==
    /\ ArcRunning /\ a_pc[t] = "idle"
    /\ a_weaks[t] > 0
    /\ ArcRoom
    /\ a_pc' = [a_pc EXCEPT ![t] = "up_load"]
    /\ UNCHANGED <<a_strong, a_weak, a_arcs, a_weaks, a_n, a_unique, a_dropped, a_freed, a_uaf>>

\* let mut n = strong_ref_count.load(Relaxed)
WeakUpgradeLoad(t) ==
    /\ ArcRunning /\ a_pc[t] = "up_load"
    /\ ArcTouch
    /\ a_n' = [a_n EXCEPT ![t] = a_strong]
    /\ a_pc' = [a_pc EXCEPT ![t] = "up_loop"]
    /\ UNCHANGED <<a_strong, a_weak, a_arcs, a_weaks, a_unique, a_dropped, a_freed>>

\* if n == 0 { return None }
WeakUpgradeNone(t) ==
    /\ ArcRunning /\ a_pc[t] = "up_loop"
    /\ a_n[t] = 0
    /\ a_pc' = [a_pc EXCEPT ![t] = "idle"]
    /\ UNCHANGED <<a_strong, a_weak, a_arcs, a_weaks, a_n, a_unique, a_dropped, a_freed, a_uaf>>

\* Mutant: the compare-exchange also runs when n is 0.
WeakUpgradeCasFromZero(t) ==
    /\ ArcRunning /\ a_pc[t] = "up_loop"
    /\ ArcTouch
    /\ IF a_strong = a_n[t]
          THEN /\ a_strong' = (a_n[t] + 1) % WordMod
               /\ a_arcs' = [a_arcs EXCEPT ![t] = @ + 1]
               /\ a_n' = [a_n EXCEPT ![t] = 0]
               /\ a_pc' = [a_pc EXCEPT ![t] = "idle"]
          ELSE /\ a_n' = [a_n EXCEPT ![t] = a_strong]
               /\ UNCHANGED <<a_strong, a_arcs, a_pc>>
    /\ UNCHANGED <<a_weak, a_weaks, a_unique, a_dropped, a_freed>>

\* strong_ref_count.compare_exchange_weak(n, n + 1): Err(e) => n = e
WeakUpgradeCas(t) ==
    /\ ArcRunning /\ a_pc[t] = "up_loop"
    /\ a_n[t] # 0
    /\ ArcTouch
    /\ IF a_strong = a_n[t]
          THEN /\ a_strong' = (a_n[t] + 1) % WordMod
               /\ a_arcs' = [a_arcs EXCEPT ![t] = @ + 1]
               /\ a_n' = [a_n EXCEPT ![t] = 0]
               /\ a_pc' = [a_pc EXCEPT ![t] = "idle"]
          ELSE /\ a_n' = [a_n EXCEPT ![t] = a_strong]
               /\ UNCHANGED <<a_strong, a_arcs, a_pc>>
    /\ UNCHANGED <<a_weak, a_weaks, a_unique, a_dropped, a_freed>>

\* ---- Arc::get_mut
ArcGetMutCall(t) ==
    /\ ArcRunning /\ a_pc[t] = "idle"
    /\ a_arcs[t] > 0
    /\ a_pc' = [a_pc EXCEPT ![t] = "gm_cas"]
    /\ UNCHANGED <<a_strong, a_weak, a_arcs, a_weaks, a_n, a_unique, a_dropped, a_freed, a_uaf>>

\* weak_ref_count.compare_exchange(1, usize::MAX).is_err() => return None
ArcGetMutCas(t) ==
    /\ ArcRunning /\ a_pc[t] = "gm_cas"
    /\ ArcTouch
    /\ IF a_weak = 1
          THEN a_weak' = USIZE_MAX /\ a_pc' = [a_pc EXCEPT ![t] = "gm_load"]
          ELSE a_pc' = [a_pc EXCEPT ![t] = "idle"] /\ UNCHANGED a_weak
    /\ UNCHANGED <<a_strong, a_arcs, a_weaks, a_n, a_unique, a_dropped, a_freed>>

\* Mutant: the strong count is not rechecked under the sentinel.
ArcGetMutLoadNoRecheck(t) ==
    /\ ArcRunning /\ a_pc[t] = "gm_load"
    /\ ArcTouch
    /\ a_unique' = [a_unique EXCEPT ![t] = TRUE]
    /\ a_pc' = [a_pc EXCEPT ![t] = "gm_store"]
    /\ UNCHANGED <<a_strong, a_weak, a_arcs, a_weaks, a_n, a_dropped, a_freed>>

\* let is_unique = strong_ref_count.load(Relaxed) == 1
ArcGetMutLoad(t) ==
    /\ ArcRunning /\ a_pc[t] = "gm_load"
    /\ ArcTouch
    /\ a_unique' = [a_unique EXCEPT ![t] = (a_strong = 1)]
    /\ a_pc' = [a_pc EXCEPT ![t] = "gm_store"]
    /\ UNCHANGED <<a_strong, a_weak, a_arcs, a_weaks, a_n, a_dropped, a_freed>>

\* Mutant: the sentinel is released only when the access is granted.
ArcGetMutStoreOnlyIfUnique(t) ==
    /\ ArcRunning /\ a_pc[t] = "gm_store"
    /\ ArcTouch
    /\ a_weak' = (IF a_unique[t] THEN 1 ELSE a_weak)
    /\ a_pc' = [a_pc EXCEPT ![t] = IF a_unique[t] THEN "gm_use" ELSE "idle"]
    /\ a_unique' = [a_unique EXCEPT ![t] = FALSE]
    /\ UNCHANGED <<a_strong, a_arcs, a_weaks, a_n, a_dropped, a_freed>>

\* weak_ref_count.store(1, Release); if !is_unique { return None }
ArcGetMutStore(t) ==
    /\ ArcRunning /\ a_pc[t] = "gm_store"
    /\ ArcTouch
    /\ a_weak' = 1
    /\ a_pc' = [a_pc EXCEPT ![t] = IF a_unique[t] THEN "gm_use" ELSE "idle"]
    /\ a_unique' = [a_unique EXCEPT ![t] = FALSE]
    /\ UNCHANGED <<a_strong, a_arcs, a_weaks, a_n, a_dropped, a_freed>>

\* the borrow Some(&mut T) ends
ArcGetMutRelease(t) ==
    /\ ArcRunning /\ a_pc[t] = "gm_use"
    /\ a_uaf' = (a_uaf \/ a_freed > 0 \/ a_dropped > 0)
    /\ a_pc' = [a_pc EXCEPT ![t] = "idle"]
    /\ UNCHANGED <<a_strong, a_weak, a_arcs, a_weaks, a_n, a_unique, a_dropped, a_freed>>

\* ---- Arc::drop
\* Mutant: the payload is dropped by every strong drop.
ArcDropAlwaysLast(t) ==
    /\ ArcRunning /\ a_pc[t] = "idle"
    /\ a_arcs[t] > 0
    /\ ArcTouch
    /\ a_strong' = (a_strong - 1) % WordMod
    /\ a_arcs' = [a_arcs EXCEPT ![t] = @ - 1]
    /\ a_pc' = [a_pc EXCEPT ![t] = "ad_payload"]
    /\ UNCHANGED <<a_weak, a_weaks, a_n, a_unique, a_dropped, a_freed>>

\* if strong_ref_count.fetch_sub(1, Release) != 1 { return }
ArcDrop(t) ==
    /\ ArcRunning /\ a_pc[t] = "idle"
    /\ a_arcs[t] > 0
    /\ ArcTouch
    /\ a_strong' = (a_strong - 1) % WordMod
    /\ a_arcs' = [a_arcs EXCEPT ![t] = @ - 1]
    /\ a_pc' = [a_pc EXCEPT ![t] = IF a_strong = 1 THEN "ad_payload" ELSE "idle"]
    /\ UNCHANGED <<a_weak, a_weaks, a_n, a_unique, a_dropped, a_freed>>

\* ManuallyDrop::drop(&mut *self.data().data.get())
ArcDropPayload(t) ==
    /\ ArcRunning /\ a_pc[t] = "ad_payload"
    /\ ArcTouch
    /\ a_dropped' = a_dropped + 1
    /\ a_pc' = [a_pc EXCEPT ![t] = "ad_weak"]
    /\ UNCHANGED <<a_strong, a_weak, a_arcs, a_weaks, a_n, a_unique, a_freed>>

\* Mutant: the implicit weak unit's drop frees whatever the count was.
ArcDropWeakAlwaysFree(t) ==
    /\ ArcRunning /\ a_pc[t] = "ad_weak"
    /\ ArcTouch
    /\ a_weak' = (a_weak - 1) % WordMod
    /\ a_pc' = [a_pc EXCEPT ![t] = "wd_free"]
    /\ UNCHANGED <<a_strong, a_arcs, a_weaks, a_n, a_unique, a_dropped, a_freed>>

\* drop(Weak { inner: self.inner }): weak_ref_count.fetch_sub(1, Release) == 1
ArcDropWeak(t) ==
    /\ ArcRunning /\ a_pc[t] = "ad_weak"
    /\ ArcTouch
    /\ a_weak' = (a_weak - 1) % WordMod
    /\ a_pc' = [a_pc EXCEPT ![t] = IF a_weak = 1 THEN "wd_free" ELSE "idle"]
    /\ UNCHANGED <<a_strong, a_arcs, a_weaks, a_n, a_unique, a_dropped, a_freed>>

\* ---- Weak::drop
\* if weak_ref_count.fetch_sub(1, Release) == 1
WeakDrop(t) ==
    /\ ArcRunning /\ a_pc[t] = "idle"
    /\ a_weaks[t] > 0
    /\ ArcTouch
    /\ a_weak' = (a_weak - 1) % WordMod
    /\ a_weaks' = [a_weaks EXCEPT ![t] = @ - 1]
    /\ a_pc' = [a_pc EXCEPT ![t] = IF a_weak = 1 THEN "wd_free" ELSE "idle"]
    /\ UNCHANGED <<a_strong, a_arcs, a_n, a_unique, a_dropped, a_freed>>

\* drop(Box::from_raw(self.inner.as_ptr()))
WeakDropFree(t) ==
    /\ ArcRunning /\ a_pc[t] = "wd_free"
    /\ ArcTouch
    /\ a_freed' = a_freed + 1
    /\ a_pc' = [a_pc EXCEPT ![t] = "idle"]
    /\ UNCHANGED <<a_strong, a_weak, a_arcs, a_weaks, a_n, a_unique, a_dropped>>

\* The steps inside a call that the scheduler must eventually run (starting
\* an operation is not forced; the end of a get_mut borrow is).
ArcStep(t) ==
    \/ ArcDowngradeLoad(t) \/ ArcDowngradeSpin(t) \/ ArcDowngradeCas(t)
    \/ WeakUpgradeLoad(t) \/ WeakUpgradeNone(t) \/ WeakUpgradeCas(t)
    \/ ArcGetMutCas(t) \/ ArcGetMutLoad(t) \/ ArcGetMutStore(t)
    \/ ArcGetMutRelease(t)
    \/ ArcDropPayload(t) \/ ArcDropWeak(t) \/ WeakDropFree(t)

\* ================================================================ Channel
\* channel/chan.rs on std's Mutex and Condvar, which are modelled by their
\* contract: lock() returns when no other guard exists; Condvar::wait
\* releases the guard and parks in one step, resumes on notify_one or
\* spuriously, and re-locks before it returns.  The k-th value thread t sends
\* is <<t, k>>.  Any thread may call send or recv; MaxMsgs bounds the calls of
\* each kind.
\* ch_pc values: "idle"
\*   send: "s_lock" (in lock()), "s_push", "s_notify", "s_unlock"
\*   recv: "r_lock" (in lock()), "r_test" (wait_while's test of the closure),
\*         "r_parked", "r_relock" (woken, in lock()), "r_pop", "r_unlock",
\*         "panicked" (the assert or the unwrap failed)

ChanInit ==
    /\ ch_queue = <<>>
    /\ ch_lock = 0
    /\ ch_pc = [t \in Threads |-> "idle"]
    /\ ch_sent = [t \in Threads |-> 0]
    /\ ch_got = <<>>
    /\ ch_sends = 0
    /\ ch_recvs = 0

ChanParked == {t \in Threads : ch_pc[t] = "r_parked"}
ChanInRecv ==
    {t \in Threads : ch_pc[t] \in {"r_lock", "r_test", "r_parked", "r_relock", "r_pop"}}

\* ---- send
ChanSendCall(t) ==
    /\ ch_pc[t] = "idle"
    /\ ch_sends < MaxMsgs
    /\ ch_sends' = ch_sends + 1
    /\ ch_pc' = [ch_pc EXCEPT ![t] = "s_lock"]
    /\ UNCHANGED <<ch_queue, ch_lock, ch_sent, ch_got, ch_recvs>>

\* let mut queue = self.queue.lock().unwrap()
ChanSendLock(t) ==
    /\ ch_pc[t] = "s_lock"
    /\ ch_lock = 0
    /\ ch_lock' = t
    /\ ch_pc' = [ch_pc EXCEPT ![t] = "s_push"]
    /\ UNCHANGED <<ch_queue, ch_sent, ch_got, ch_sends, ch_recvs>>

\* queue.push_back(value); if queue.len() == 1
ChanSendPush(t) ==
    /\ ch_pc[t] = "s_push"
    /\ ch_queue' = Append(ch_queue, <<t, ch_sent[t] + 1>>)
    /\ ch_sent' = [ch_sent EXCEPT ![t] = @ + 1]
    /\ ch_pc' = [ch_pc EXCEPT ![t] = IF Len(ch_queue) = 0 THEN "s_notify" ELSE "s_unlock"]
    /\ UNCHANGED <<ch_lock, ch_got, ch_sends, ch_recvs>>

\* self.item_ready.notify_one()
ChanSendNotify(t) ==
    /\ ch_pc[t] = "s_notify"
    /\ IF ChanParked = {}
          THEN ch_pc' = [ch_pc EXCEPT ![t] = "s_unlock"]
          ELSE \E u \in ChanParked :
                  ch_pc' = [ch_pc EXCEPT ![t] = "s_unlock", ![u] = "r_relock"]
    /\ UNCHANGED <<ch_queue, ch_lock, ch_sent, ch_got, ch_sends, ch_recvs>>

\* the guard goes out of scope
ChanSendUnlock(t) ==
    /\ ch_pc[t] = "s_unlock"
    /\ ch_lock' = 0
    /\ ch_pc' = [ch_pc EXCEPT ![t] = "idle"]
    /\ UNCHANGED <<ch_queue, ch_sent, ch_got, ch_sends, ch_recvs>>

\* ---- recv
ChanRecvCall(t) ==
    /\ ch_pc[t] = "idle"
    /\ ch_recvs < MaxMsgs
    /\ ch_recvs' = ch_recvs + 1
    /\ ch_pc' = [ch_pc EXCEPT ![t] = "r_lock"]
    /\ UNCHANGED <<ch_queue, ch_lock, ch_sent, ch_got, ch_sends>>

\* self.queue.lock().unwrap()
ChanRecvLock(t) ==
    /\ ch_pc[t] = "r_lock"
    /\ ch_lock = 0
    /\ ch_lock' = t
    /\ ch_pc' = [ch_pc EXCEPT ![t] = "r_test"]
    /\ UNCHANGED <<ch_queue, ch_sent, ch_got, ch_sends, ch_recvs>>

\* wait_while(guard, |q| q.is_empty()): waits while the closure holds
ChanRecvTest(t) ==
    /\ ch_pc[t] = "r_test"
    /\ IF Len(ch_queue) = 0
          THEN ch_lock' = 0 /\ ch_pc' = [ch_pc EXCEPT ![t] = "r_parked"]
          ELSE ch_pc' = [ch_pc EXCEPT ![t] = "r_pop"] /\ UNCHANGED ch_lock
    /\ UNCHANGED <<ch_queue, ch_sent, ch_got, ch_sends, ch_recvs>>

ChanSpuriousWake(t) ==
    /\ ch_pc[t] = "r_parked"
    /\ ch_pc' = [ch_pc EXCEPT ![t] = "r_relock"]
    /\ UNCHANGED <<ch_queue, ch_lock, ch_sent, ch_got, ch_sends, ch_recvs>>

\* Mutant: the closure is not tested again after a wakeup.
ChanRecvRelockNoRetest(t) ==
    /\ ch_pc[t] = "r_relock"
    /\ ch_lock = 0
    /\ ch_lock' = t
    /\ ch_pc' = [ch_pc EXCEPT ![t] = "r_pop"]
    /\ UNCHANGED <<ch_queue, ch_sent, ch_got, ch_sends, ch_recvs>>

\* the woken wait re-locks and wait_while tests the closure again
ChanRecvRelock(t) ==
    /\ ch_pc[t] = "r_relock"
    /\ ch_lock = 0
    /\ ch_lock' = t
    /\ ch_pc' = [ch_pc EXCEPT ![t] = "r_test"]
    /\ UNCHANGED <<ch_queue, ch_sent, ch_got, ch_sends, ch_recvs>>

\* assert!(!queue.is_empty()); queue.pop_front().unwrap()
ChanRecvPop(t) ==
    /\ ch_pc[t] = "r_pop"
    /\ IF Len(ch_queue) = 0
          THEN /\ ch_pc' = [ch_pc EXCEPT ![t] = "panicked"]
               /\ UNCHANGED <<ch_queue, ch_got>>
          ELSE /\ ch_got' = Append(ch_got, Head(ch_queue))
               /\ ch_queue' = Tail(ch_queue)
               /\ ch_pc' = [ch_pc EXCEPT ![t] = "r_unlock"]
    /\ UNCHANGED <<ch_lock, ch_sent, ch_sends, ch_recvs>>

\* the guard goes out of scope and recv returns the value
ChanRecvUnlock(t) ==
    /\ ch_pc[t] = "r_unlock"
    /\ ch_lock' = 0
    /\ ch_pc' = [ch_pc EXCEPT ![t] = "idle"]
    /\ UNCHANGED <<ch_queue, ch_sent, ch_got, ch_sends, ch_recvs>>

\* Every step a thread takes by itself inside send or recv.
ChanStep(t) ==
    \/ ChanSendLock(t) \/ ChanSendPush(t) \/ ChanSendNotify(t) \/ ChanSendUnlock(t)
    \/ ChanRecvLock(t) \/ ChanRecvTest(t) \/ ChanRecvRelock(t) \/ ChanRecvPop(t)
    \/ ChanRecvUnlock(t)

\* ================================================================ Oneshot
\* channel/oneshot.rs: one Channel cell behind a std Arc shared by the Sender
\* and the Receiver.  Both send and receive consume their handle, which is
\* dropped when the call returns.  The message is a value of 1..MaxMsgs.
\* os_pc values, per handle: "have" (handle alive, unused),
\*   "s_store" (send wrote the slot), "used" (the call is over, the handle is
\*   about to be dropped), "teardown" (this handle's drop was the last:
\*   Channel::drop runs), "gone"

OsInit ==
    /\ os_ready = FALSE
    /\ os_slot = 0
    /\ os_refs = 2
    /\ os_pc = [h \in {"snd", "rcv"} |-> "have"]
    /\ os_seen = FALSE
    /\ os_got = 0
    /\ os_torn = 0
    /\ os_bad = FALSE

\* send: (*self.channel.message.get()).write(message)
OsSendWrite(m) ==
    /\ os_pc["snd"] = "have"
    /\ os_slot' = m
    /\ os_pc' = [os_pc EXCEPT !["snd"] = "s_store"]
    /\ UNCHANGED <<os_ready, os_refs, os_seen, os_got, os_torn, os_bad>>

\* send: self.channel.ready.store(true, Release)
OsSendStore ==
    /\ os_pc["snd"] = "s_store"
    /\ os_ready' = TRUE
    /\ os_pc' = [os_pc EXCEPT !["snd"] = "used"]
    /\ UNCHANGED <<os_slot, os_refs, os_seen, os_got, os_torn, os_bad>>

\* Receiver::is_ready
OsIsReady ==
    /\ os_pc["rcv"] = "have"
    /\ os_seen' = os_ready
    /\ UNCHANGED <<os_ready, os_slot, os_refs, os_pc, os_got, os_torn, os_bad>>

\* Receiver::receive: assume_init_read copies the slot out; nothing in the
\* signature keeps a caller from calling it before is_ready returned true.
\* The read is not ordered after send's write: is_ready loads the flag with
\* Relaxed and receive makes no Acquire load, so the Receiver's read races
\* with the Sender's write and copies either the message or the slot's
\* earlier, uninitialized contents.
OsReceive ==
    /\ os_pc["rcv"] = "have"
    /\ \E v \in {IF os_slot = 0 THEN -1 ELSE os_slot, -1} : os_got' = v
    /\ os_pc' = [os_pc EXCEPT !["rcv"] = "used"]
    /\ UNCHANGED <<os_ready, os_slot, os_refs, os_seen, os_torn, os_bad>>

\* a handle is dropped, unused or at the end of its call: the Arc's count
\* goes down and the last drop runs Channel::drop
OsHandleDrop(h) ==
    /\ os_pc[h] \in {"have", "used"}
    /\ os_refs' = os_refs - 1
    /\ os_pc' = [os_pc EXCEPT ![h] = IF os_refs = 1 THEN "teardown" ELSE "gone"]
    /\ UNCHANGED <<os_ready, os_slot, os_seen, os_got, os_torn, os_bad>>

\* Mutant: teardown drops the slot whatever the flag holds.
OsTeardownIgnoresFlag(h) ==
    /\ os_pc[h] = "teardown"
    /\ os_torn' = os_torn + 1
    /\ os_bad' = (os_bad \/ os_slot = 0)
    /\ os_pc' = [os_pc EXCEPT ![h] = "gone"]
    /\ UNCHANGED <<os_ready, os_slot, os_refs, os_seen, os_got>>

\* Channel::drop: if *self.ready.get_mut() { assume_init_drop() }
OsTeardown(h) ==
    /\ os_pc[h] = "teardown"
    /\ IF os_ready
          THEN os_torn' = os_torn + 1 /\ os_bad' = (os_bad \/ os_slot = 0)
          ELSE UNCHANGED <<os_torn, os_bad>>
    /\ os_pc' = [os_pc EXCEPT ![h] = "gone"]
    /\ UNCHANGED <<os_ready, os_slot, os_refs, os_seen, os_got>>

\* ================================================================= RwLock
\* rw_pc values, read():   "r_load"    before x = state.load()
\*                         "r_loop"    at the loop head with x loaded
\*                         "r_parked"  parked in wait(&state, x)
\*                         "r_reload"  after wait, before x = state.load()
\*                         "reading"   read() returned, the ReadGuard is alive
\*                         "rd_bump"   ReadGuard::drop before the counter add
\*                         "rd_wake"   ReadGuard::drop before wake_one
\*              write():   "w_load"    before x = state.load()
\*                         "w_loop"    at the loop head with x loaded
\*                         "w_loadw"   before w = writer_wake_counter.load()
\*                         "w_check"   before state.load() >= 2
\*                         "w_wait"    before wait(&writer_wake_counter, w)
\*                         "w_parked"  parked in that wait
\*                         "w_reload"  after wait, before x = state.load()
\*                         "writing"   write() returned, the WriteGuard is alive
\*                         "wd_bump", "wd_wake1", "wd_wakeall"  WriteGuard::drop
\*              "out" outside every call, "panicked" after a failed assert
\* rw_x and rw_w are locals: they are set back to 0 where the source never
\* reads them again before assigning them.

RwInit ==
    /\ rw_state = 0
    /\ rw_wake = 0
    /\ rw_pc = [t \in Threads |-> "out"]
    /\ rw_x = [t \in Threads |-> 0]
    /\ rw_w = [t \in Threads |-> 0]
    /\ rw_calls = [t \in Threads |-> 0]
    /\ rw_wparked = "none"
    /\ rw_late = [t \in Threads |-> "none"]

RwReaders == {t \in Threads : rw_pc[t] = "reading"}
RwWriters == {t \in Threads : rw_pc[t] = "writing"}
RwParkedReaders == {t \in Threads : rw_pc[t] = "r_parked"}
RwParkedWriters == {t \in Threads : rw_pc[t] = "w_parked"}
RwInWrite ==
    {t \in Threads : rw_pc[t] \in
        {"w_load", "w_loop", "w_loadw", "w_check", "w_wait", "w_parked", "w_reload"}}
RwInRead ==
    {t \in Threads : rw_pc[t] \in {"r_load", "r_loop", "r_parked", "r_reload"}}

\* The writer-pending bit is set and no writer holds the lock.
RwPending == rw_state % 2 = 1 /\ rw_state # RWLOCK_WLOCKED

\* A call of RwLock::read (each thread takes one guard, as test_mutex's
\* writer threads do).  rw_late records whether a writer has parked in
\* write() before this call and no WriteGuard was obtained since: "pending"
\* if one parked with the pending bit set, "other" if only without it.
RwReadCall(t) ==
    /\ rw_pc[t] = "out"
    /\ rw_calls[t] = 0
    /\ rw_pc' = [rw_pc EXCEPT ![t] = "r_load"]
    /\ rw_late' = [rw_late EXCEPT ![t] = rw_wparked]
    /\ UNCHANGED <<rw_state, rw_wake, rw_x, rw_w, rw_calls, rw_wparked>>

\* let mut x = self.state.load(Relaxed)
RwReadLoad(t) ==
    /\ rw_pc[t] = "r_load"
    /\ rw_x' = [rw_x EXCEPT ![t] = rw_state]
    /\ rw_pc' = [rw_pc EXCEPT ![t] = "r_loop"]
    /\ UNCHANGED <<rw_state, rw_wake, rw_w, rw_calls, rw_wparked, rw_late>>

\* if x % 2 == 1 { wait(&self.state, x); ... }
RwReadWait(t) ==
    /\ rw_pc[t] = "r_loop"
    /\ rw_x[t] % 2 = 1
    /\ rw_pc' = [rw_pc EXCEPT ![t] =
                    IF rw_state = rw_x[t] THEN "r_parked" ELSE "r_reload"]
    /\ rw_x' = [rw_x EXCEPT ![t] = 0]
    /\ UNCHANGED <<rw_state, rw_wake, rw_w, rw_calls, rw_wparked, rw_late>>

RwReadSpuriousWake(t) ==
    /\ rw_pc[t] = "r_parked"
    /\ rw_pc' = [rw_pc EXCEPT ![t] = "r_reload"]
    /\ UNCHANGED <<rw_state, rw_wake, rw_x, rw_w, rw_calls, rw_wparked, rw_late>>

\* x = self.state.load(Relaxed) after the wait; the parity test that follows
\* is the one RwReadWait and RwReadCas make on x.
RwReadReload(t) ==
    /\ rw_pc[t] = "r_reload"
    /\ rw_x' = [rw_x EXCEPT ![t] = rw_state]
    /\ rw_pc' = [rw_pc EXCEPT ![t] = "r_loop"]
    /\ UNCHANGED <<rw_state, rw_wake, rw_w, rw_calls, rw_wparked, rw_late>>

\* Mutant: the reader increments without looking at the pending bit.
RwReadCasAnyParity(t) ==
    /\ rw_pc[t] = "r_loop"
    /\ IF rw_state = rw_x[t]
          THEN /\ rw_state' = (rw_x[t] + 2) % WordMod
               /\ rw_pc' = [rw_pc EXCEPT ![t] = "reading"]
               /\ rw_x' = [rw_x EXCEPT ![t] = 0]
          ELSE /\ rw_x' = [rw_x EXCEPT ![t] = rw_state]
               /\ UNCHANGED <<rw_state, rw_pc>>
    /\ UNCHANGED <<rw_wake, rw_w, rw_calls, rw_wparked, rw_late>>

\* if x % 2 == 0 { assert!(x != u32::MAX - 2); compare_exchange_weak(x, x + 2) }
\* (a spurious failure of the weak exchange reloads x and retries: no new state)
\* When x + 2 exceeds the word's range the sum either panics (a build with
\* overflow checks) or wraps (a build without them).
RwReadCas(t) ==
    /\ rw_pc[t] = "r_loop"
    /\ rw_x[t] % 2 = 0
    /\ IF rw_x[t] = RWLOCK_WLOCKED - 2
          THEN /\ rw_pc' = [rw_pc EXCEPT ![t] = "panicked"]
               /\ UNCHANGED <<rw_state, rw_x>>
          ELSE \/ /\ rw_x[t] + 2 >= WordMod
                  /\ rw_pc' = [rw_pc EXCEPT ![t] = "panicked"]
                  /\ UNCHANGED <<rw_state, rw_x>>
               \/ IF rw_state = rw_x[t]
                     THEN /\ rw_state' = (rw_x[t] + 2) % WordMod
                          /\ rw_pc' = [rw_pc EXCEPT ![t] = "reading"]
                          /\ rw_x' = [rw_x EXCEPT ![t] = 0]
                     ELSE /\ rw_x' = [rw_x EXCEPT ![t] = rw_state]
                          /\ UNCHANGED <<rw_state, rw_pc>>
    /\ UNCHANGED <<rw_wake, rw_w, rw_calls, rw_wparked, rw_late>>

\* The caller keeps its ReadGuard alive (stores it away, or forgets it) and is
\* free to call read() again: the guard is never dropped.
RwReadKeep(t) ==
    /\ rw_pc[t] = "reading"
    /\ rw_pc' = [rw_pc EXCEPT ![t] = "out"]
    /\ UNCHANGED <<rw_state, rw_wake, rw_x, rw_w, rw_calls, rw_wparked, rw_late>>

\* Mutant: the reader's release also clears the pending bit.
RwReadGuardDropClearsBit(t) ==
    /\ rw_pc[t] = "reading"
    /\ rw_state' = (rw_state - 2 - (rw_state % 2)) % WordMod
    /\ rw_pc' = [rw_pc EXCEPT ![t] = IF rw_state = 3 THEN "rd_bump" ELSE "out"]
    /\ rw_calls' = [rw_calls EXCEPT ![t] = @ + 1]
    /\ UNCHANGED <<rw_wake, rw_x, rw_w, rw_wparked, rw_late>>

\* ReadGuard::drop: state.fetch_sub(2) == 3
RwReadGuardDrop(t) ==
    /\ rw_pc[t] = "reading"
    /\ rw_state' = (rw_state - 2) % WordMod
    /\ rw_pc' = [rw_pc EXCEPT ![t] = IF rw_state = 3 THEN "rd_bump" ELSE "out"]
    /\ rw_calls' = [rw_calls EXCEPT ![t] = @ + 1]
    /\ UNCHANGED <<rw_wake, rw_x, rw_w, rw_wparked, rw_late>>

\* writer_wake_counter.fetch_add(1)
RwReadDropBump(t) ==
    /\ rw_pc[t] = "rd_bump"
    /\ rw_wake' = (rw_wake + 1) % WordMod
    /\ rw_pc' = [rw_pc EXCEPT ![t] = "rd_wake"]
    /\ UNCHANGED <<rw_state, rw_x, rw_w, rw_calls, rw_wparked, rw_late>>

\* wake_one(&writer_wake_counter)
RwReadDropWake(t) ==
    /\ rw_pc[t] = "rd_wake"
    /\ IF RwParkedWriters = {}
          THEN rw_pc' = [rw_pc EXCEPT ![t] = "out"]
          ELSE \E u \in RwParkedWriters :
                  rw_pc' = [rw_pc EXCEPT ![t] = "out", ![u] = "w_reload"]
    /\ UNCHANGED <<rw_state, rw_wake, rw_x, rw_w, rw_calls, rw_wparked, rw_late>>

\* A call of RwLock::write.
RwWriteCall(t) ==
    /\ rw_pc[t] = "out"
    /\ rw_calls[t] = 0
    /\ rw_pc' = [rw_pc EXCEPT ![t] = "w_load"]
    /\ UNCHANGED <<rw_state, rw_wake, rw_x, rw_w, rw_calls, rw_wparked, rw_late>>

\* let mut x = self.state.load(Relaxed)
RwWriteLoad(t) ==
    /\ rw_pc[t] = "w_load"
    /\ rw_x' = [rw_x EXCEPT ![t] = rw_state]
    /\ rw_pc' = [rw_pc EXCEPT ![t] = "w_loop"]
    /\ UNCHANGED <<rw_state, rw_wake, rw_w, rw_calls, rw_wparked, rw_late>>

\* Mutant: the writer takes the lock whenever x is what it loaded.
RwWriteTryLockAnyState(t) ==
    /\ rw_pc[t] = "w_loop"
    /\ IF rw_state = rw_x[t]
          THEN /\ rw_state' = RWLOCK_WLOCKED
               /\ rw_pc' = [rw_pc EXCEPT ![t] = "writing"]
               /\ rw_late' = [u \in Threads |-> "none"]
               /\ rw_wparked' = "none"
               /\ rw_x' = [rw_x EXCEPT ![t] = 0]
          ELSE /\ rw_x' = [rw_x EXCEPT ![t] = rw_state]
               /\ UNCHANGED <<rw_state, rw_pc, rw_wparked, rw_late>>
    /\ UNCHANGED <<rw_wake, rw_w, rw_calls>>

\* if x <= 1 { compare_exchange(x, RWLOCK_WLOCKED): Ok => break, Err(e) => x = e }
RwWriteTryLock(t) ==
    /\ rw_pc[t] = "w_loop"
    /\ rw_x[t] <= 1
    /\ IF rw_state = rw_x[t]
          THEN /\ rw_state' = RWLOCK_WLOCKED
               /\ rw_pc' = [rw_pc EXCEPT ![t] = "writing"]
               /\ rw_late' = [u \in Threads |-> "none"]
               /\ rw_wparked' = "none"
               /\ rw_x' = [rw_x EXCEPT ![t] = 0]
          ELSE /\ rw_x' = [rw_x EXCEPT ![t] = rw_state]
               /\ UNCHANGED <<rw_state, rw_pc, rw_wparked, rw_late>>
    /\ UNCHANGED <<rw_wake, rw_w, rw_calls>>

\* if x % 2 == 0 { compare_exchange(x, x + 1): Ok => {}, Err(e) => x = e }
\* On success x keeps the even value it had.
RwWriteSetPending(t) ==
    /\ rw_pc[t] = "w_loop"
    /\ rw_x[t] > 1
    /\ rw_x[t] % 2 = 0
    /\ IF rw_state = rw_x[t]
          THEN /\ rw_state' = (rw_x[t] + 1) % WordMod
               /\ rw_pc' = [rw_pc EXCEPT ![t] = "w_loadw"]
               /\ UNCHANGED rw_x
          ELSE /\ rw_x' = [rw_x EXCEPT ![t] = rw_state]
               /\ UNCHANGED <<rw_state, rw_pc>>
    /\ UNCHANGED <<rw_wake, rw_w, rw_calls, rw_wparked, rw_late>>

\* let w = self.writer_wake_counter.load(Acquire), reached after the pending
\* bit was set or directly from the loop head when x is odd and above 1.
RwWriteLoadW(t) ==
    /\ \/ rw_pc[t] = "w_loadw"
       \/ rw_pc[t] = "w_loop" /\ rw_x[t] > 1 /\ rw_x[t] % 2 = 1
    /\ rw_w' = [rw_w EXCEPT ![t] = rw_wake]
    /\ rw_pc' = [rw_pc EXCEPT ![t] = "w_check"]
    /\ UNCHANGED <<rw_state, rw_wake, rw_x, rw_calls, rw_wparked, rw_late>>

\* if self.state.load(Relaxed) >= 2 { wait ... } -- the loaded value is not
\* kept: when it is below 2 the loop restarts with the old x.
RwWriteCheck(t) ==
    /\ rw_pc[t] = "w_check"
    /\ rw_pc' = [rw_pc EXCEPT ![t] = IF rw_state >= 2 THEN "w_wait" ELSE "w_loop"]
    /\ rw_x' = [rw_x EXCEPT ![t] = IF rw_state >= 2 THEN 0 ELSE @]
    /\ rw_w' = [rw_w EXCEPT ![t] = IF rw_state >= 2 THEN @ ELSE 0]
    /\ UNCHANGED <<rw_state, rw_wake, rw_calls, rw_wparked, rw_late>>

\* wait(&self.writer_wake_counter, w)
RwWriteWait(t) ==
    /\ rw_pc[t] = "w_wait"
    /\ rw_pc' = [rw_pc EXCEPT ![t] =
                    IF rw_wake = rw_w[t] THEN "w_parked" ELSE "w_reload"]
    /\ rw_w' = [rw_w EXCEPT ![t] = 0]
    /\ rw_wparked' = IF rw_wake # rw_w[t] THEN rw_wparked
                     ELSE IF RwPending \/ rw_wparked = "pending" THEN "pending"
                     ELSE "other"
    /\ UNCHANGED <<rw_state, rw_wake, rw_x, rw_calls, rw_late>>

RwWriteSpuriousWake(t) ==
    /\ rw_pc[t] = "w_parked"
    /\ rw_pc' = [rw_pc EXCEPT ![t] = "w_reload"]
    /\ UNCHANGED <<rw_state, rw_wake, rw_x, rw_w, rw_calls, rw_wparked, rw_late>>

\* x = self.state.load(Relaxed) after the wait
RwWriteReload(t) ==
    /\ rw_pc[t] = "w_reload"
    /\ rw_x' = [rw_x EXCEPT ![t] = rw_state]
    /\ rw_pc' = [rw_pc EXCEPT ![t] = "w_loop"]
    /\ UNCHANGED <<rw_state, rw_wake, rw_w, rw_calls, rw_wparked, rw_late>>

\* WriteGuard::drop: state.store(0)
RwWriteGuardDrop(t) ==
    /\ rw_pc[t] = "writing"
    /\ rw_state' = 0
    /\ rw_pc' = [rw_pc EXCEPT ![t] = "wd_bump"]
    /\ rw_calls' = [rw_calls EXCEPT ![t] = @ + 1]
    /\ UNCHANGED <<rw_wake, rw_x, rw_w, rw_wparked, rw_late>>

\* writer_wake_counter.fetch_add(1)
RwWriteDropBump(t) ==
    /\ rw_pc[t] = "wd_bump"
    /\ rw_wake' = (rw_wake + 1) % WordMod
    /\ rw_pc' = [rw_pc EXCEPT ![t] = "wd_wake1"]
    /\ UNCHANGED <<rw_state, rw_x, rw_w, rw_calls, rw_wparked, rw_late>>

\* wake_one(&writer_wake_counter)
RwWriteDropWakeOne(t) ==
    /\ rw_pc[t] = "wd_wake1"
    /\ IF RwParkedWriters = {}
          THEN rw_pc' = [rw_pc EXCEPT ![t] = "wd_wakeall"]
          ELSE \E u \in RwParkedWriters :
                  rw_pc' = [rw_pc EXCEPT ![t] = "wd_wakeall", ![u] = "w_reload"]
    /\ UNCHANGED <<rw_state, rw_wake, rw_x, rw_w, rw_calls, rw_wparked, rw_late>>

\* wake_all(&state)
RwWriteDropWakeAll(t) ==
    /\ rw_pc[t] = "wd_wakeall"
    /\ rw_pc' = [u \in Threads |->
                    IF u = t THEN "out"
                    ELSE IF rw_pc[u] = "r_parked" THEN "r_reload" ELSE rw_pc[u]]
    /\ UNCHANGED <<rw_state, rw_wake, rw_x, rw_w, rw_calls, rw_wparked, rw_late>>

\* Every step a scheduled thread takes by itself: all but the calls and the
\* spurious futex returns.
RwStep(t) ==
    \/ RwReadLoad(t) \/ RwReadWait(t) \/ RwReadReload(t) \/ RwReadCas(t)
    \/ RwReadGuardDrop(t) \/ RwReadDropBump(t) \/ RwReadDropWake(t)
    \/ RwWriteLoad(t) \/ RwWriteTryLock(t) \/ RwWriteSetPending(t)
    \/ RwWriteLoadW(t) \/ RwWriteCheck(t) \/ RwWriteWait(t) \/ RwWriteReload(t)
    \/ RwWriteGuardDrop(t) \/ RwWriteDropBump(t) \/ RwWriteDropWakeOne(t)
    \/ RwWriteDropWakeAll(t)

\* ========================================================= specifications
Init ==
    /\ MutexInit
    /\ MutexTestInit
    /\ BenchInit
    /\ SpinInit
    /\ CvInit
    /\ ArcInit
    /\ ChanInit
    /\ OsInit
    /\ RwInit

\* What each component's steps leave alone.
MutexFrame ==
    UNCHANGED <<benchVars, spinVars, cvVars, arcVars, rwVars, chanVars, oneVars>>
BenchFrame ==
    UNCHANGED <<mutexTestVars, spinVars, cvVars, arcVars, rwVars, chanVars, oneVars>>
SpinFrame ==
    UNCHANGED <<mutexVars, mutexTestVars, benchVars, cvVars, arcVars, rwVars, chanVars, oneVars>>
CvFrame ==
    UNCHANGED <<mutexTestVars, benchVars, spinVars, arcVars, rwVars, chanVars, oneVars>>
RwFrame ==
    UNCHANGED <<mutexVars, mutexTestVars, benchVars, spinVars, cvVars, arcVars, chanVars, oneVars>>
ArcFrame ==
    UNCHANGED <<mutexVars, mutexTestVars, benchVars, spinVars, cvVars, rwVars, chanVars, oneVars>>

NextMutex ==
    \E t \in Threads :
        \/ MutexTestLock(t) /\ MutexFrame
        \/ MutexLockCas(t) /\ UNCHANGED mutexTestVars /\ MutexFrame
        \/ MutexLockSwap(t) /\ UNCHANGED mutexTestVars /\ MutexFrame
        \/ MutexLockWait(t) /\ UNCHANGED mutexTestVars /\ MutexFrame
        \/ MutexSpuriousWake(t) /\ UNCHANGED mutexTestVars /\ MutexFrame
        \/ MutexWakeOne(t) /\ UNCHANGED mutexTestVars /\ MutexFrame
        \/ MutexTestPush(t) /\ MutexFrame
        \/ MutexTestUnlock(t) /\ MutexFrame

SpecMutex == Init /\ [][NextMutex]_vars

NextSpin ==
    \E t \in Threads :
        \/ SpinLockCall(t) /\ SpinFrame
        \/ SpinLockSwap(t) /\ SpinFrame
        \/ SpinPush(t) /\ SpinFrame
        \/ SpinGuardDrop(t) /\ SpinFrame

SpecSpin == Init /\ [][NextSpin]_vars

NextCv ==
    \E t \in Threads :
        \/ MutexLockCas(t) /\ UNCHANGED cvVars /\ CvFrame
        \/ MutexLockSwap(t) /\ UNCHANGED cvVars /\ CvFrame
        \/ MutexLockWait(t) /\ UNCHANGED cvVars /\ CvFrame
        \/ MutexSpuriousWake(t) /\ UNCHANGED cvVars /\ CvFrame
        \/ MutexWakeOne(t) /\ UNCHANGED cvVars /\ CvFrame
        \/ CvWaiterLock(t) /\ CvFrame
        \/ CvWaiterLocked(t) /\ CvFrame
        \/ CvWaiterTest(t) /\ CvFrame
        \/ CvWaitInc(t) /\ CvFrame
        \/ CvWaitLoad(t) /\ CvFrame
        \/ CvWaitDrop(t) /\ CvFrame
        \/ CvWaitFutex(t) /\ CvFrame
        \/ CvSpuriousWake(t) /\ CvFrame
        \/ CvWaitDec(t) /\ CvFrame
        \/ CvWaitRelock(t) /\ CvFrame
        \/ CvWaitReturn(t) /\ CvFrame
        \/ CvWaiterExit(t) /\ CvFrame
        \/ CvNotifierLock(t) /\ CvFrame
        \/ CvNotifierLocked(t) /\ CvFrame
        \/ CvNotifierSet(t) /\ CvFrame
        \/ CvNotifierDrop(t) /\ CvFrame
        \/ CvNotifyOneCheck(t) /\ CvFrame
        \/ CvNotifyAllCheck(t) /\ CvFrame
        \/ CvNotifyAdd(t) /\ CvFrame
        \/ CvNotifyWakeOne(t) /\ CvFrame
        \/ CvNotifyWakeAll(t) /\ CvFrame

SpecCv == Init /\ [][NextCv]_vars

\* Fair scheduling of every started thread's own steps; starting a thread's
\* program and spurious futex returns are not forced.
SpecCvFair == SpecCv /\ \A t \in Threads : WF_vars(CvStep(t) /\ CvFrame)

\* The same program on a wait/wake facility that never returns spuriously:
\* a parked thread leaves the futex only through wake_one / wake_all.
NextCvQuiet ==
    \E t \in Threads :
        \/ MutexLockCas(t) /\ UNCHANGED cvVars /\ CvFrame
        \/ MutexLockSwap(t) /\ UNCHANGED cvVars /\ CvFrame
        \/ MutexLockWait(t) /\ UNCHANGED cvVars /\ CvFrame
        \/ MutexWakeOne(t) /\ UNCHANGED cvVars /\ CvFrame
        \/ CvWaiterLock(t) /\ CvFrame
        \/ CvWaiterLocked(t) /\ CvFrame
        \/ CvWaiterTest(t) /\ CvFrame
        \/ CvWaitInc(t) /\ CvFrame
        \/ CvWaitLoad(t) /\ CvFrame
        \/ CvWaitDrop(t) /\ CvFrame
        \/ CvWaitFutex(t) /\ CvFrame
        \/ CvWaitDec(t) /\ CvFrame
        \/ CvWaitRelock(t) /\ CvFrame
        \/ CvWaitReturn(t) /\ CvFrame
        \/ CvWaiterExit(t) /\ CvFrame
        \/ CvNotifierLock(t) /\ CvFrame
        \/ CvNotifierLocked(t) /\ CvFrame
        \/ CvNotifierSet(t) /\ CvFrame
        \/ CvNotifierDrop(t) /\ CvFrame
        \/ CvNotifyOneCheck(t) /\ CvFrame
        \/ CvNotifyAllCheck(t) /\ CvFrame
        \/ CvNotifyAdd(t) /\ CvFrame
        \/ CvNotifyWakeOne(t) /\ CvFrame
        \/ CvNotifyWakeAll(t) /\ CvFrame

SpecCvQuiet == Init /\ [][NextCvQuiet]_vars

SpecCvQuietFair ==
    SpecCvQuiet /\ \A t \in Threads : WF_vars(CvStep(t) /\ CvFrame)

NextArc ==
    \E t \in Threads :
        \/ \E u \in Threads : ArcSend(t, u) /\ ArcFrame
        \/ \E u \in Threads : WeakSend(t, u) /\ ArcFrame
        \/ ArcDeref(t) /\ ArcFrame
        \/ ArcClone(t) /\ ArcFrame
        \/ WeakClone(t) /\ ArcFrame
        \/ ArcDowngradeCall(t) /\ ArcFrame
        \/ ArcDowngradeLoad(t) /\ ArcFrame
        \/ ArcDowngradeSpin(t) /\ ArcFrame
        \/ ArcDowngradeCas(t) /\ ArcFrame
        \/ WeakUpgradeCall(t) /\ ArcFrame
        \/ WeakUpgradeLoad(t) /\ ArcFrame
        \/ WeakUpgradeNone(t) /\ ArcFrame
        \/ WeakUpgradeCas(t) /\ ArcFrame
        \/ ArcGetMutCall(t) /\ ArcFrame
        \/ ArcGetMutCas(t) /\ ArcFrame
        \/ ArcGetMutLoad(t) /\ ArcFrame
        \/ ArcGetMutStore(t) /\ ArcFrame
        \/ ArcGetMutRelease(t) /\ ArcFrame
        \/ ArcDrop(t) /\ ArcFrame
        \/ ArcDropPayload(t) /\ ArcFrame
        \/ ArcDropWeak(t) /\ ArcFrame
        \/ WeakDrop(t) /\ ArcFrame
        \/ WeakDropFree(t) /\ ArcFrame

SpecArc == Init /\ [][NextArc]_vars

\* Every thread inside a call keeps running, and the retry loop of downgrade
\* does not lose its race with the other threads' updates forever: a reload
\* that can see a count other than the sentinel again and again eventually
\* does, and a compare-exchange that can succeed again and again eventually
\* does.
SpecArcFair ==
    /\ SpecArc
    /\ \A t \in Threads :
          /\ WF_vars(ArcStep(t) /\ ArcFrame)
          /\ SF_vars(ArcDowngradeSpin(t) /\ ArcFrame /\ a_n'[t] # USIZE_MAX)
          /\ SF_vars(ArcDowngradeCas(t) /\ ArcFrame /\ a_pc'[t] = "idle")

ChanFrame ==
    UNCHANGED <<mutexVars, mutexTestVars, benchVars, spinVars, cvVars, arcVars,
                oneVars, rwVars>>

NextChan ==
    \E t \in Threads :
        \/ ChanSendCall(t) /\ ChanFrame
        \/ ChanSendLock(t) /\ ChanFrame
        \/ ChanSendPush(t) /\ ChanFrame
        \/ ChanSendNotify(t) /\ ChanFrame
        \/ ChanSendUnlock(t) /\ ChanFrame
        \/ ChanRecvCall(t) /\ ChanFrame
        \/ ChanRecvLock(t) /\ ChanFrame
        \/ ChanRecvTest(t) /\ ChanFrame
        \/ ChanSpuriousWake(t) /\ ChanFrame
        \/ ChanRecvRelock(t) /\ ChanFrame
        \/ ChanRecvPop(t) /\ ChanFrame
        \/ ChanRecvUnlock(t) /\ ChanFrame

SpecChan == Init /\ [][NextChan]_vars

\* Fair scheduling of every thread's own steps inside send and recv; calls
\* and spurious wakeups are not forced.
SpecChanFair == SpecChan /\ \A t \in Threads : WF_vars(ChanStep(t) /\ ChanFrame)

OsFrame ==
    UNCHANGED <<mutexVars, mutexTestVars, benchVars, spinVars, cvVars, arcVars,
                chanVars, rwVars>>

NextOs ==
    \/ \E m \in 1..MaxMsgs : OsSendWrite(m) /\ OsFrame
    \/ OsSendStore /\ OsFrame
    \/ OsIsReady /\ OsFrame
    \/ OsReceive /\ OsFrame
    \/ \E h \in {"snd", "rcv"} : OsHandleDrop(h) /\ OsFrame
    \/ \E h \in {"snd", "rcv"} : OsTeardown(h) /\ OsFrame

SpecOs == Init /\ [][NextOs]_vars

NextRw ==
    \E t \in Threads :
        \/ RwReadCall(t) /\ RwFrame
        \/ RwReadLoad(t) /\ RwFrame
        \/ RwReadWait(t) /\ RwFrame
        \/ RwReadSpuriousWake(t) /\ RwFrame
        \/ RwReadReload(t) /\ RwFrame
        \/ RwReadCas(t) /\ RwFrame
        \/ RwReadGuardDrop(t) /\ RwFrame
        \/ RwReadDropBump(t) /\ RwFrame
        \/ RwReadDropWake(t) /\ RwFrame
        \/ RwWriteCall(t) /\ RwFrame
        \/ RwWriteLoad(t) /\ RwFrame
        \/ RwWriteTryLock(t) /\ RwFrame
        \/ RwWriteSetPending(t) /\ RwFrame
        \/ RwWriteLoadW(t) /\ RwFrame
        \/ RwWriteCheck(t) /\ RwFrame
        \/ RwWriteWait(t) /\ RwFrame
        \/ RwWriteSpuriousWake(t) /\ RwFrame
        \/ RwWriteReload(t) /\ RwFrame
        \/ RwWriteGuardDrop(t) /\ RwFrame
        \/ RwWriteDropBump(t) /\ RwFrame
        \/ RwWriteDropWakeOne(t) /\ RwFrame
        \/ RwWriteDropWakeAll(t) /\ RwFrame

SpecRw == Init /\ [][NextRw]_vars

\* The same threads when a caller may keep any number of ReadGuards alive.
NextRwMany ==
    \/ NextRw
    \/ \E t \in Threads : RwReadKeep(t) /\ RwFrame

SpecRwMany == Init /\ [][NextRwMany]_vars

\* Fair scheduling of every thread's own steps; read()/write() calls and
\* spurious futex returns are not forced.
SpecRwFair == SpecRw /\ \A t \in Threads : WF_vars(RwStep(t) /\ RwFrame)

NextBench ==
    \E t \in Threads :
        \/ BenchLock(t) /\ BenchFrame
        \/ MutexLockCas(t) /\ UNCHANGED benchVars /\ BenchFrame
        \/ MutexLockSwap(t) /\ UNCHANGED benchVars /\ BenchFrame
        \/ MutexLockWait(t) /\ UNCHANGED benchVars /\ BenchFrame
        \/ MutexSpuriousWake(t) /\ UNCHANGED benchVars /\ BenchFrame
        \/ MutexWakeOne(t) /\ UNCHANGED benchVars /\ BenchFrame
        \/ BenchRead(t) /\ BenchFrame
        \/ BenchWrite(t) /\ BenchFrame
        \/ BenchUnlock(t) /\ BenchFrame

SpecBench == Init /\ [][NextBench]_vars

BenchRun(t) ==
    /\ \/ MutexStep(t) /\ UNCHANGED benchVars
       \/ BenchRead(t)
       \/ BenchWrite(t)
       \/ BenchUnlock(t)
    /\ BenchFrame

\* Fair scheduling: a thread that can take a step inside lock(), inside its
\* critical section or inside the guard release eventually takes it.  Calling
\* lock() and spurious futex returns are not forced.
SpecBenchFair == SpecBench /\ \A t \in Threads : WF_vars(BenchRun(t))

\* ----------------------------------------------------------------- claims
RECURSIVE Serialized(_)
\* s is a concatenation of whole critical sections: Pushes(t) copies of t each.
Serialized(s) ==
    IF s = <<>> THEN TRUE
    ELSE LET t == Head(s)
             n == Pushes(t)
         IN  /\ Len(s) >= n
             /\ \A i \in 1..n : s[i] = t
             /\ Serialized(SubSeq(s, n + 1, Len(s)))

TagCount(s, t) == Cardinality({i \in 1..Len(s) : s[i] = t})

\* C1: at most one MutexGuard is alive at any instant, and the protected Vec
\* is always a sequence of whole critical sections followed by the pushes of
\* the one section in progress; every finished section is in it exactly once.
C1_MutexExclusion ==
    /\ Cardinality(MutexHolders) <= 1
    /\ \A t \in Threads :
          TagCount(m_value, t) = Pushes(t) * m_locks[t] + m_pushed[t]
    /\ \A t \in Threads : m_pc[t] # "held" => m_pushed[t] = 0
    /\ \E k \in 0..Len(m_value) :
          /\ \A t \in Threads : m_pushed[t] > 0 =>
                /\ Len(m_value) - k = m_pushed[t]
                /\ \A i \in (k + 1)..Len(m_value) : m_value[i] = t
          /\ (\A t \in Threads : m_pushed[t] = 0) => k = Len(m_value)
          /\ Serialized(SubSeq(m_value, 1, k))

\* C1 witness: a guard holder is inside its critical section, after another
\* thread's whole section, while a third thread is parked in lock().
C1_Witness ==
    \E t, u \in Threads :
        /\ t # u
        /\ m_pc[t] = "held" /\ m_pushed[t] > 0
        /\ m_pc[u] = "parked"
        /\ Len(m_value) > m_pushed[t]

\* C2: no lost wakeup.  Whenever some thread is inside lock(), some thread
\* eventually holds the guard; and the state word is never UNLOCKED with
\* every thread inside lock() parked unless a wake_one call is pending.
C2_MutexNoLostWakeup ==
    /\ [](( /\ m_state = MUTEX_UNLOCKED
            /\ MutexInLock # {}
            /\ MutexInLock \subseteq MutexParked )
          => \E t \in Threads : m_pc[t] = "wake")
    /\ ((MutexInLock # {}) ~> (MutexHolders # {}))

\* C2 witness: a thread is parked while the word is UNLOCKED and the
\* releasing thread has not called wake_one yet.
C2_Witness ==
    \E t, u \in Threads :
        /\ m_pc[t] = "parked"
        /\ m_state = MUTEX_UNLOCKED
        /\ m_pc[u] = "wake"

\* C6: at most one SpinLockGuard is alive at any instant and the flag is set
\* while it is; lock() returns only on the swap that observed the flag false,
\* and the guard release stores false; the Vec holds whole critical sections.
C6_SpinExclusion ==
    /\ [](/\ Cardinality(SpinHolders) <= 1
          /\ (SpinHolders # {} => s_locked)
          /\ \A t \in Threads :
                TagCount(s_value, t) = Pushes(t) * s_locks[t] + s_pushed[t]
          /\ \E k \in 0..Len(s_value) :
                /\ Serialized(SubSeq(s_value, 1, k))
                /\ \A t \in Threads : s_pushed[t] > 0 =>
                      /\ Len(s_value) - k = s_pushed[t]
                      /\ \A i \in (k + 1)..Len(s_value) : s_value[i] = t
                /\ (\A t \in Threads : s_pushed[t] = 0) => k = Len(s_value))
    /\ [][\A t \in Threads :
             /\ (s_pc[t] # "held" /\ s_pc'[t] = "held")
                    => (~s_locked /\ s_locked')
             /\ (s_pc[t] = "held" /\ s_pc'[t] # "held") => ~s_locked']_vars

\* C6 witness: a guard holder is inside its critical section, after another
\* thread's whole section, while another thread spins in lock().
C6_Witness ==
    \E t, u \in Threads :
        /\ t # u
        /\ s_pc[t] = "held" /\ s_pushed[t] > 0
        /\ s_pc[u] = "swap" /\ s_locked
        /\ Len(s_value) > s_pushed[t]

C4_WriterPriority ==
    \A t \in Threads : rw_pc[t] = "reading" => rw_late[t] = "none"

\* C4, for pending writers only: the same for a writer that parked with the pending bit set
\* (it found ReadGuards held); a writer parked behind another writer has no
\* priority once that writer releases.
C4_PendingWriterPriority ==
    \A t \in Threads : rw_pc[t] = "reading" => rw_late[t] # "pending"

\* C4 witness: a read() call made after a writer parked with the pending bit
\* set is itself parked on the state word.
C4_Witness ==
    \E t \in Threads : rw_pc[t] = "r_parked" /\ rw_late[t] = "pending"

\* C5: whenever a thread is inside write(), some writer eventually holds the
\* WriteGuard.
C5_WriterProgress == (RwInWrite # {}) ~> (RwWriters # {})

\* C7: wait never returns without holding the mutex: a thread that has the
\* guard wait returned holds the mutex, a thread parked in wait has released
\* it, and at most one thread holds the mutex at any instant.
C7_WaitReturnsHoldingMutex ==
    /\ Cardinality(MutexHolders) <= 1
    /\ \A t \in Threads :
          /\ cv_pc[t] \in {"w_test", "wt_inc", "wt_load", "wt_drop", "w_exit"}
                => m_pc[t] = "held"
          /\ cv_pc[t] \in {"wt_parked", "wt_dec", "wt_lock"} => m_pc[t] = "out"

\* C7 witness: one thread is back from wait with the guard while another is
\* still parked in wait.
C7_Witness ==
    \E t, u \in Threads :
        /\ cv_pc[t] = "w_test" /\ t \in cv_ret
        /\ cv_pc[u] = "wt_parked"

\* C8: no missed notification: when a thread is inside wait and a notifier
\* that set the predicate under the mutex has finished its notify call, some
\* wait call returns with the predicate set.
C8_NoMissedNotification ==
    ((CvInWait # {}) /\ (\E u \in Threads : cv_pc[u] = "n_done")) ~> (cv_ret # {})

\* C8 witness: the notify ran between the waiter's release of the mutex and
\* its futex call: the waiter is about to call wait(&counter, counter_value)
\* with a counter that has moved on.
C8_Witness ==
    \E t, u \in Threads :
        /\ cv_pc[t] = "wt_wait" /\ cv_seen[t] # cv_counter
        /\ cv_pc[u] = "n_done"
        /\ cv_ret = {}

\* C9: the payload's destructor runs at most once, has not run while the
\* strong count is positive or an Arc handle is live, and once the strong
\* count is 0 it has run or the thread that dropped the last Arc is about to
\* run it.
C9_PayloadDroppedOnce ==
    /\ a_dropped <= 1
    /\ a_dropped = 1 => a_strong = 0 /\ ArcLive = 0
    /\ a_strong = 0 => a_dropped = 1 \/ (\E t \in Threads : a_pc[t] = "ad_payload")
    /\ ArcLive > 0 => a_strong > 0

\* C9 witness: the destructor has run while a Weak handle is still live and
\* another thread is inside upgrade.
C9_Witness ==
    /\ a_dropped = 1
    /\ WeakLive > 0
    /\ \E t \in Threads : a_pc[t] = "up_loop"

\* C10: the box is freed at most once, only with the weak count at 0, the
\* payload destroyed and no handle left; once the weak count is 0 the box is
\* freed or the thread that took the count to 0 is about to free it; and no
\* operation touches the cell after the free.
C10_CellFreedOnce ==
    /\ a_freed <= 1
    /\ a_freed = 1 => a_weak = 0 /\ a_dropped = 1 /\ ArcLive = 0 /\ WeakLive = 0
    /\ a_weak = 0 => a_freed = 1 \/ (\E t \in Threads : a_pc[t] = "wd_free")
    /\ (\E t \in Threads : a_pc[t] = "wd_free") => a_weak = 0 /\ a_dropped = 1
    /\ ~a_uaf

\* C10 witness: the box has been freed and every thread is back from the
\* operation it was in.
C10_Witness ==
    /\ a_freed = 1
    /\ \A t \in Threads : a_pc[t] = "idle"

\* C11: the strong count never moves from 0 back to a positive value; an
\* upgrade call returns no handle only when the strong count is 0 (so not
\* while a strong handle stays live), and returns a handle only by taking a
\* positive strong count one up, before the payload's destruction.
C11_UpgradeOnlyWhileStrong ==
    /\ [][a_strong = 0 => a_strong' = 0]_vars
    /\ [][\A t \in Threads :
             (a_pc[t] = "up_loop" /\ a_pc'[t] = "idle") =>
                IF a_arcs'[t] = a_arcs[t]
                   THEN a_strong = 0 /\ ArcLive = 0
                   ELSE /\ a_strong > 0 /\ a_strong' = a_strong + 1
                        /\ a_arcs'[t] = a_arcs[t] + 1
                        /\ a_dropped = 0]_vars

\* C11 witness: an upgrade call read a positive strong count and the last
\* strong handle was dropped before its compare-exchange.
C11_Witness ==
    \E t \in Threads : a_pc[t] = "up_loop" /\ a_n[t] > 0 /\ a_strong = 0

\* C12: while a thread holds the access get_mut returned, its Arc is the
\* only handle of the cell: no other Arc, no Weak, and no clone, downgrade or
\* upgrade call in progress that could return one.
C12_GetMutExclusive ==
    \A t \in Threads :
        a_pc[t] = "gm_use" =>
            /\ a_arcs[t] = 1 /\ ArcLive = 1
            /\ WeakLive = 0
            /\ ArcMaking = 0
            /\ a_strong = 1 /\ a_weak = 1
            /\ a_dropped = 0

\* C12 witness: get_mut granted access on a thread that was handed the Arc.
C12_Witness ==
    \E t \in Threads :
        /\ t # 1 /\ a_pc[t] = "gm_use"
        /\ a_weak = 1 /\ a_strong = 1

\* the values of sender t in s, in order of appearance
RECURSIVE FromSender(_, _)
FromSender(s, t) ==
    IF s = <<>> THEN <<>>
    ELSE IF Head(s)[1] = t THEN <<Head(s)[2]>> \o FromSender(Tail(s), t)
    ELSE FromSender(Tail(s), t)

\* C13: the values popped so far followed by the values still queued hold,
\* for every sender, exactly that sender's values 1..n once each and in the
\* order sent; recv pops only from a non-empty queue and never panics.
C13_ChannelDelivery ==
    /\ \A t \in Threads :
          FromSender(ch_got \o ch_queue, t) = [i \in 1..ch_sent[t] |-> i]
    /\ \A t \in Threads : ch_pc[t] = "r_pop" => Len(ch_queue) > 0
    /\ \A t \in Threads : ch_pc[t] # "panicked"
    /\ \A t \in Threads : ch_pc[t] \in {"s_push", "s_notify", "s_unlock", "r_test", "r_pop", "r_unlock"}
          <=> ch_lock = t

\* C13 witness: two senders' values were received interleaved, one sender's
\* two values among them.
C13_Witness ==
    /\ Len(ch_got) = 3
    /\ \E t, u \in Threads :
          /\ t # u
          /\ ch_got[1] = <<t, 1>> /\ ch_got[2] = <<u, 1>> /\ ch_got[3] = <<t, 2>>

\* C14: no thread stays parked in recv forever while the queue holds a value
\* for every recv call in progress.
C14_RecvProgress ==
    []<>(ChanParked = {} \/ Len(ch_queue) < Cardinality(ChanInRecv))

\* C15: a message that receive handed to its caller after send is not
\* destroyed again by the cell's teardown.
C15_OneshotReadOnce ==
    os_got > 0 => os_torn = 0

\* C16: once both handles are gone without receive having been called, the
\* teardown has destroyed the message exactly once if send was called and has
\* run no destructor otherwise; it never reads the uninitialized slot.
C16_OneshotTeardown ==
    /\ ~os_bad
    /\ os_torn <= 1
    /\ (os_got = 0 /\ \A h \in {"snd", "rcv"} : os_pc[h] = "gone") =>
          os_torn = (IF os_slot # 0 THEN 1 ELSE 0)

\* C16 witness: the Sender's drop at the end of send was the last one and its
\* teardown destroyed the message; receive was never called.
C16_Witness ==
    /\ os_got = 0 /\ os_slot # 0 /\ os_torn = 1
    /\ \A h \in {"snd", "rcv"} : os_pc[h] = "gone"

\* C16 witness without send: both handles are gone and nothing was destroyed.
C16_WitnessNoSend ==
    /\ os_got = 0 /\ os_slot = 0 /\ os_torn = 0
    /\ \A h \in {"snd", "rcv"} : os_pc[h] = "gone"


\* C17: a MutexGuard release calls wake_one only if at least one other thread
\* is at that moment inside lock().
C17_WakeOnlyIfWaiter ==
    \A t \in Threads : m_pc[t] = "wake" => (MutexInLock \ {t}) # {}

\* C17, as the code decides it: the release goes on to call wake_one exactly
\* when the word it swaps out is CONTENTION, and the word becomes CONTENTION
\* only by the swap of some lock() call's contended loop.  That call may be
\* the releasing holder's own, and it may have stopped waiting by the time
\* wake_one is called.
C17_WakeOnlyAfterContention ==
    /\ [][\A t \in Threads :
            (m_pc[t] = "held" /\ m_pc'[t] # "held") =>
                /\ m_state' = MUTEX_UNLOCKED
                /\ m_state \in {MUTEX_LOCKED, MUTEX_CONTENTION}
                /\ m_pc'[t] = (IF m_state = MUTEX_CONTENTION THEN "wake" ELSE "out")]_vars
    /\ [][(m_state' = MUTEX_CONTENTION /\ m_state # MUTEX_CONTENTION) =>
            \E u \in Threads : m_pc[u] = "swap" /\ m_pc'[u] \in {"held", "wait"}]_vars

\* C17 witness: a release is about to call wake_one while no thread is inside
\* lock().
C17_Witness ==
    \E t \in Threads : m_pc[t] = "wake" /\ MutexInLock = {}

\* C18: a lock() whose first compare_exchange finds UNLOCKED returns the guard
\* with the word LOCKED and without reaching the swap or wait; while a guard
\* is alive, a word that is LOCKED changes only by the swap of another thread
\* inside lock(); the release of a guard that finds the word LOCKED leaves it
\* UNLOCKED without calling wake_one; so while no other thread has called
\* lock() at all, a live guard has the word LOCKED.
C18_FastPath ==
    /\ [][\A t \in Threads :
            (m_pc[t] = "cas" /\ m_state = MUTEX_UNLOCKED /\ m_pc'[t] # "cas") =>
                (m_pc'[t] = "held" /\ m_state' = MUTEX_LOCKED)]_vars
    /\ [][\A t \in Threads :
            (m_pc[t] = "held" /\ m_pc'[t] = "held"
                /\ m_state = MUTEX_LOCKED /\ m_state' # MUTEX_LOCKED) =>
                \E u \in Threads \ {t} : m_pc[u] = "swap" /\ m_pc'[u] = "wait"]_vars
    /\ [][\A t \in Threads :
            (m_pc[t] = "held" /\ m_state = MUTEX_LOCKED /\ m_pc'[t] # "held") =>
                (m_pc'[t] = "out" /\ m_state' = MUTEX_UNLOCKED)]_vars
    /\ [](\A t \in Threads :
            (m_pc[t] = "held"
                /\ \A u \in Threads \ {t} : m_locks[u] = 0 /\ m_pc[u] = "out") =>
                m_state = MUTEX_LOCKED)

\* C18 witness: one thread has locked and released while no other thread ever
\* called lock(); the word is UNLOCKED and no wake_one call is pending.
C18_Witness ==
    \E t \in Threads :
        /\ m_locks[t] = 1 /\ m_pc[t] = "out" /\ m_state = MUTEX_UNLOCKED
        /\ \A u \in Threads \ {t} : m_locks[u] = 0 /\ m_pc[u] = "out"

\* C19: every notify_one / notify_all call increments the generation counter,
\* also when no thread is registered as waiting: once the notifier's one call
\* has returned, the counter is one more than at construction.
C19_NotifyAlwaysIncrements ==
    cv_pc[CvNotifier] = "n_done" => cv_counter = 1

\* C19, as the code does it: notify_one / notify_all first read the waiter
\* count; when it is zero the call returns with the counter unchanged and no
\* wake call, when it is positive the call increments the counter by exactly
\* one and then makes its wake call.  The counter moves in no other way, and
\* a notify call leaves the waiter count, the mutex and the data alone.
C19_NotifyIncrementsOnlyWithWaiters ==
    /\ [][\A t \in Threads :
            (cv_pc[t] = "n_notify" /\ cv_pc'[t] # "n_notify") =>
                /\ cv_counter' = cv_counter
                /\ IF cv_waiters > 0
                      THEN cv_pc'[t] \in {"n1_add", "na_add"}
                      ELSE cv_pc'[t] = "n_done"]_vars
    /\ [][cv_counter' # cv_counter =>
            /\ cv_counter' = (cv_counter + 1) % WordMod
            /\ \E t \in Threads :
                  \/ cv_pc[t] = "n1_add" /\ cv_pc'[t] = "n1_wake"
                  \/ cv_pc[t] = "na_add" /\ cv_pc'[t] = "na_wake"]_vars
    /\ [][\A t \in Threads :
            (cv_pc[t] \in {"n_notify", "n1_add", "na_add", "n1_wake", "na_wake"}
                /\ cv_pc'[t] # cv_pc[t]) =>
                /\ UNCHANGED <<cv_waiters, cv_data, cv_seen, cv_ret, mutexVars>>
                /\ (cv_pc'[t] = "n_done" /\ cv_pc[t] # "n_notify") =>
                      cv_counter = 1]_vars

\* C19 witness: the notifier's call has returned and the counter still has
\* its initial value.
C19_Witness ==
    cv_pc[CvNotifier] = "n_done" /\ cv_counter = 0


\* C20: on a wait/wake facility without spurious returns, Condvar::wait adds
\* no wakeups of its own.  The futex wait inside wait() is left only when the
\* counter differs from the value the waiter read; every return from wait()
\* finds the predicate set, so a waiter that has returned from wait() once is
\* never inside wait() again; and a waiter that is alone in wait() once the
\* one notify call has returned does return from it.
C20_NoOwnWakeups ==
    /\ [](\A t \in Threads : cv_pc[t] = "wt_dec" => cv_counter # cv_seen[t])
    /\ [][\A t \in Threads :
            (cv_pc[t] = "wt_ret" /\ cv_pc'[t] = "w_test") =>
                (cv_data >= 100 /\ t \in cv_ret')]_vars
    /\ [](\A t \in cv_ret : t \notin CvInWait)
    /\ (Cardinality(CvInWait) = 1 /\ cv_ret = {} /\ cv_pc[CvNotifier] = "n_done")
          ~> (CvInWait = {} /\ Cardinality(cv_ret) = 1)

\* C20 witness: a waiter that parked in wait() has returned from it after the
\* notify and left the loop, with the counter advanced once.
C20_Witness ==
    \E t \in cv_ret : cv_pc[t] = "w_exit" /\ cv_counter = 1


\* C21: no read() call obtains a ReadGuard in a step that starts with the
\* state word odd, and an odd state word becomes even only by the store of 0
\* in a WriteGuard's release: ReadGuard releases and the steps of other
\* write() calls keep it odd.
C21_PendingBitBlocksReaders ==
    /\ [][\A t \in Threads :
            (rw_pc[t] # "reading" /\ rw_pc'[t] = "reading") =>
                (rw_state % 2 = 0 /\ rw_state' % 2 = 0)]_vars
    /\ [][(rw_state % 2 = 1 /\ rw_state' % 2 = 0) =>
            /\ rw_state' = 0
            /\ \E t \in Threads : rw_pc[t] = "writing" /\ rw_pc'[t] = "wd_bump"]_vars

\* C21 witness: the pending bit is set, a reader is parked in read(), and the
\* last ReadGuard has just been released, leaving the word at 1.
C21_Witness ==
    /\ RwPending
    /\ rw_state = 1
    /\ RwParkedReaders # {}
    /\ \E u \in Threads : rw_pc[u] = "rd_bump"


\* C22: every thread parked in read() eventually obtains its ReadGuard, and a
\* reader is never parked on the state word forever while the word is even.
C22_ReaderProgress ==
    /\ \A t \in Threads : (rw_pc[t] = "r_parked") ~> (rw_pc[t] = "reading")
    /\ []<>(RwParkedReaders = {} \/ rw_state % 2 = 1)


\* C23: read() never wraps the state word and never produces the write-locked
\* sentinel: every step in which a read() call obtains its ReadGuard adds
\* exactly 2 to the word, without reduction modulo the word's range, and the
\* result is below the sentinel; a read() that cannot do so fails its
\* assertion instead.
C23_ReadNeverWraps ==
    [][\A t \in Threads :
          (rw_pc[t] = "r_loop" /\ rw_pc'[t] = "reading") =>
              (rw_state' = rw_state + 2 /\ rw_state' < RWLOCK_WLOCKED)]_vars


\* a thread inside get_mut between its compare-exchange and its store
ArcSentinelHolders == {t \in Threads : a_pc[t] \in {"gm_load", "gm_store"}}

ArcQuiescent == \A t \in Threads : a_pc[t] \in {"idle", "gm_use"}

\* C25: Arc::new starts with both counts at 1; in every state in which no
\* handle operation is in progress the strong count is the number of live
\* Arc handles and the weak count is the number of live Weak handles, plus 1
\* while the strong count is positive; the weak count is the sentinel only
\* while a get_mut call is between its compare-exchange and its store.
C25_CountInvariant ==
    /\ (a_strong = 1 /\ a_weak = 1 /\ ArcLive = 1 /\ WeakLive = 0)
    /\ [](ArcQuiescent =>
            /\ a_strong = ArcLive
            /\ a_weak = WeakLive + (IF a_strong > 0 THEN 1 ELSE 0))
    /\ [](a_weak = USIZE_MAX => ArcSentinelHolders # {})

\* C25 witness: a quiescent state after the last Arc handle has gone while
\* Weak handles remain.
C25_Witness == ArcQuiescent /\ a_strong = 0 /\ WeakLive >= 2 /\ a_dropped = 1


\* C26: the ready flag is false at creation; it changes only from false to
\* true, in the store of send and after send has written the slot, which is
\* written once; hence ready implies that the slot has been written, and a
\* receive made after is_ready returned true returns the message in the slot.
C26_PublicationOrder ==
    /\ (os_ready = FALSE /\ os_slot = 0)
    /\ [][os_ready' # os_ready =>
            /\ os_ready' = TRUE
            /\ os_pc["snd"] = "s_store" /\ os_pc'["snd"] = "used"
            /\ os_slot # 0 /\ os_slot' = os_slot]_vars
    /\ [][os_slot' # os_slot =>
            (os_slot = 0 /\ os_pc["snd"] = "have" /\ os_pc'["snd"] = "s_store")]_vars
    /\ [](os_ready => os_slot # 0)
    /\ [][(os_pc["rcv"] = "have" /\ os_pc'["rcv"] = "used" /\ os_seen) =>
            (os_slot # 0 /\ os_got' = os_slot)]_vars

\* The part of C26 that does not depend on what receive reads.
C26_FlagFollowsWrite ==
    /\ (os_ready = FALSE /\ os_slot = 0)
    /\ [][os_ready' # os_ready =>
            /\ os_ready' = TRUE
            /\ os_pc["snd"] = "s_store" /\ os_pc'["snd"] = "used"
            /\ os_slot # 0 /\ os_slot' = os_slot]_vars
    /\ [][os_slot' # os_slot =>
            (os_slot = 0 /\ os_pc["snd"] = "have" /\ os_pc'["snd"] = "s_store")]_vars
    /\ [](os_ready => os_slot # 0)

====
